---- MODULE Spec2Model ----
(***************************************************************************)
(* Pipeline Flow Wizard: the shared configuration store (ConfigContext),   *)
(* the wizard shell (Index, Sidebar), the per-step editors and the export  *)
(* step, as one state machine.                                             *)
(*                                                                         *)
(* A text is a string, character for character the string the program      *)
(* holds; the empty text is "".                                            *)
(***************************************************************************)
EXTENDS Integers, Sequences, FiniteSets, TLC

VARIABLES
  activeStep,  \* Index.tsx: useState(0)
  configs,     \* ConfigContext.tsx: useState<Record<string, any>>({})
  local,       \* the state of the step component that is mounted
  timers,      \* ExportProject.tsx: the Export All runs whose timers are pending
  nOps,        \* edits, applies and export clicks so far (bounds the exploration)
  focus,       \* the step whose inputs this behaviour edits, 0 before the first edit
  lastOp       \* the last handler that ran and the calls it made

vars == <<activeStep, configs, local, timers, nOps, focus, lastOp>>

(***************************************************************************)
(* Bounds of the exploration.                                              *)
(***************************************************************************)
\* A behaviour makes at most MaxOps edits, applies and export clicks (Export
\* All, which starts fourteen timers, counts twice) and uses the inputs of one
\* step only, Export All being the input of the export step; navigation,
\* Apply and Next are open at every step.
MaxOps == 3

(***************************************************************************)
(* Text helpers.  A text is a string; its characters are numbered from 1.  *)
(***************************************************************************)
\* The backquote character (a string literal cannot hold one on its own).
Backquote == SubSeq("`'", 1, 1)

Min(S) == CHOOSE x \in S : \A y \in S : x <= y

Max(S) == CHOOSE x \in S : \A y \in S : x >= y

\* The positions at which the string pat occurs in text: those that hold its
\* first character and, from there on, all of it.
Matches(text, pat) ==
  IF pat = "" THEN 1..(Len(text) + 1)
  ELSE LET first == SubSeq(pat, 1, 1)
           starts == {i \in 1..(Len(text) - Len(pat) + 1) : SubSeq(text, i, i) = first}
       IN {i \in starts : SubSeq(text, i, i + Len(pat) - 1) = pat}

\* String.prototype.includes
Includes(text, pat) == Matches(text, pat) # {}

RECURSIVE CountFrom(_, _, _)
CountFrom(hits, len, pos) ==
  LET rest == {s \in hits : s >= pos} IN
  IF rest = {} THEN 0 ELSE 1 + CountFrom(hits, len, Min(rest) + len)

\* text.split(tok).length - 1: the occurrences of tok in text, counted from
\* the left without overlap; the empty tok cuts between every two characters.
Count(text, tok) ==
  IF tok = "" THEN Len(text) - 1 ELSE CountFrom(Matches(text, tok), Len(tok), 1)

(***************************************************************************)
(* Regular expressions, as far as the patterns of the sources go: a        *)
(* pattern is a sequence of atoms.                                         *)
(***************************************************************************)
Lit(s) == [t |-> "lit", s |-> s]        \* the characters of s

Dot == [t |-> "dot"]                    \* .

Digits == [t |-> "digits"]              \* \d+

DotStar == [t |-> "dotstar"]            \* .*

Lazy == [t |-> "lazy"]                  \* [\s\S]*?

LineEnd == [t |-> "eol"]                \* $ under the m flag

Group(alts) == [t |-> "group", alts |-> alts]   \* (a|b|...), capturing

Close(from) == [t |-> "close", from |-> from]   \* the end of a group opened at from

IsDigit(c) == c \in {"0", "1", "2", "3", "4", "5", "6", "7", "8", "9"}

\* The line terminators a string of this module can hold.
IsLineTerminator(c) == c \in {"\n", "\r"}

\* The first position at or after i that holds no digit (kind "digits") or
\* holds a line terminator (kind "dotstar"); Len(text) + 1 if there is none.
RECURSIVE RunEnd(_, _, _)
RunEnd(text, i, kind) ==
  IF i > Len(text) THEN i
  ELSE IF kind = "digits" /\ ~IsDigit(SubSeq(text, i, i)) THEN i
  ELSE IF kind = "dotstar" /\ IsLineTerminator(SubSeq(text, i, i)) THEN i
  ELSE RunEnd(text, i + 1, kind)

\* The match of the atoms k.. of re at position i of text that a backtracking
\* matcher finds first, as <<position after the match, captures>>; << >> if
\* there is none.
RECURSIVE MatchHere(_, _, _, _, _)
MatchHere(text, i, re, k, caps) ==
  IF k > Len(re) THEN <<i, caps>>
  ELSE LET a == re[k] IN
    CASE a.t = "lit" ->
           IF i + Len(a.s) - 1 <= Len(text) /\ SubSeq(text, i, i + Len(a.s) - 1) = a.s
           THEN MatchHere(text, i + Len(a.s), re, k + 1, caps)
           ELSE << >>
      [] a.t = "dot" ->
           IF i <= Len(text) /\ ~IsLineTerminator(SubSeq(text, i, i))
           THEN MatchHere(text, i + 1, re, k + 1, caps)
           ELSE << >>
      [] a.t = "eol" ->
           IF i > Len(text) \/ IsLineTerminator(SubSeq(text, i, i))
           THEN MatchHere(text, i, re, k + 1, caps)
           ELSE << >>
      [] a.t \in {"digits", "dotstar"} ->
           LET lo == IF a.t = "digits" THEN i + 1 ELSE i
               ok == {j \in lo..RunEnd(text, i, a.t) :
                        MatchHere(text, j, re, k + 1, caps) # << >>}
           IN IF ok = {} THEN << >> ELSE MatchHere(text, Max(ok), re, k + 1, caps)
      [] a.t = "lazy" ->
           LET cands == IF k < Len(re) /\ re[k + 1].t = "lit"
                        THEN {j \in Matches(text, re[k + 1].s) : j >= i}
                        ELSE i..(Len(text) + 1)
               ok == {j \in cands : MatchHere(text, j, re, k + 1, caps) # << >>}
           IN IF ok = {} THEN << >> ELSE MatchHere(text, Min(ok), re, k + 1, caps)
      [] a.t = "group" ->
           LET try == [n \in 1..Len(a.alts) |->
                         MatchHere(text, i,
                           a.alts[n] \o <<Close(i)>> \o SubSeq(re, k + 1, Len(re)),
                           1, caps)]
               ok == {n \in 1..Len(a.alts) : try[n] # << >>}
           IN IF ok = {} THEN << >> ELSE try[Min(ok)]
      [] a.t = "close" ->
           MatchHere(text, i, re, k + 1, Append(caps, SubSeq(text, a.from, i - 1)))

\* The positions of text at which re matches.
Hits(text, re) ==
  LET cands == IF re # << >> /\ re[1].t = "lit"
               THEN Matches(text, re[1].s)
               ELSE 1..(Len(text) + 1)
  IN {i \in cands : MatchHere(text, i, re, 1, << >>) # << >>}

\* String.prototype.charAt, positions counted from 1.
CharAt(text, i) == IF i \in 1..Len(text) THEN SubSeq(text, i, i) ELSE ""

\* The number a digit stands for.
DigitValue(c) == CHOOSE n \in 0..9 : ToString(n) = c

\* $nn names capture nn if the pattern has m >= nn captures, nn >= 1.
TwoDigits(c, c2, m) ==
  IsDigit(c) /\ IsDigit(c2) /\ (10 * DigitValue(c) + DigitValue(c2)) \in 1..m

\* What a $ followed by the characters c, c2 stands for, and the number of
\* characters of the replacement it takes: $$ is a dollar sign, $& the
\* matched text, $` the text before the match, $' the text after it, $nn
\* a capture and, if it names none, $n a capture (n >= 1, the pattern having
\* that many); every other $ stands for itself.
Substitution(matched, text, position, captures, c, c2) ==
  CASE c = "$" -> <<"$", 2>>
    [] c = "&" -> <<matched, 2>>
    [] c = Backquote -> <<SubSeq(text, 1, position - 1), 2>>
    [] c = "'" -> <<SubSeq(text, position + Len(matched), Len(text)), 2>>
    [] TwoDigits(c, c2, Len(captures)) ->
         <<captures[10 * DigitValue(c) + DigitValue(c2)], 3>>
    [] /\ ~TwoDigits(c, c2, Len(captures))
       /\ IsDigit(c)
       /\ DigitValue(c) \in 1..Len(captures) -> <<captures[DigitValue(c)], 2>>
    [] OTHER -> <<"$", 1>>

\* The position of the first "$" of rep at or after p; Len(rep) + 1 if
\* there is none.
NextDollar(rep, p) == Min({q \in Matches(rep, "$") : q >= p} \cup {Len(rep) + 1})

\* GetSubstitution of ECMAScript, from position p of the replacement rep.
RECURSIVE GetSubstitution(_, _, _, _, _, _)
GetSubstitution(matched, text, position, captures, rep, p) ==
  IF p > Len(rep) THEN ""
  ELSE IF NextDollar(rep, p) > p
  THEN SubSeq(rep, p, NextDollar(rep, p) - 1)
         \o GetSubstitution(matched, text, position, captures, rep, NextDollar(rep, p))
  ELSE Substitution(matched, text, position, captures,
                    CharAt(rep, p + 1), CharAt(rep, p + 2))[1]
         \o GetSubstitution(matched, text, position, captures, rep,
              p + Substitution(matched, text, position, captures,
                               CharAt(rep, p + 1), CharAt(rep, p + 2))[2])

\* text.replace(re, rep) over the matches at hits, from position pos on:
\* every match from the left without overlap (global), or the first only.
\* ReplaceAt replaces the match m = <<end, captures>> found at s >= pos; an
\* empty match is followed by the character it stands before.
RECURSIVE ReplaceFrom(_, _, _, _, _, _)
RECURSIVE ReplaceAt(_, _, _, _, _, _, _, _)
ReplaceAt(text, hits, re, rep, global, pos, s, m) ==
  SubSeq(text, pos, s - 1)
    \o GetSubstitution(SubSeq(text, s, m[1] - 1), text, s, m[2], rep, 1)
    \o (IF ~global THEN SubSeq(text, m[1], Len(text))
        ELSE IF m[1] > s THEN ReplaceFrom(text, hits, re, rep, global, m[1])
        ELSE IF s > Len(text) THEN ""
        ELSE SubSeq(text, s, s) \o ReplaceFrom(text, hits, re, rep, global, s + 1))

ReplaceFrom(text, hits, re, rep, global, pos) ==
  IF \A s \in hits : s < pos THEN SubSeq(text, pos, Len(text))
  ELSE ReplaceAt(text, hits, re, rep, global, pos, Min({s \in hits : s >= pos}),
                 MatchHere(text, Min({s \in hits : s >= pos}), re, 1, << >>))

\* String.prototype.replace with a pattern /re/g: every match.
ReplaceAll(text, re, rep) == ReplaceFrom(text, Hits(text, re), re, rep, TRUE, 1)

\* String.prototype.replace with a pattern without the g flag: the first match.
ReplaceFirst(text, re, rep) == ReplaceFrom(text, Hits(text, re), re, rep, FALSE, 1)

\* String.prototype.replace with a string pattern: its first occurrence.
ReplaceString(text, pat, rep) == ReplaceFirst(text, <<Lit(pat)>>, rep)

(***************************************************************************)
(* JavaScript's `saved.field || fallback` on an object that may lack the   *)
(* field.  A missing field is undefined; the empty string and false are    *)
(* falsy; an object is always truthy.                                      *)
(***************************************************************************)
OrString(obj, field, fallback) ==
  IF field \in DOMAIN obj /\ obj[field] # "" THEN obj[field] ELSE fallback

OrBool(obj, field, fallback) ==
  IF field \in DOMAIN obj /\ obj[field] THEN TRUE ELSE fallback

OrObject(obj, field, fallback) ==
  IF field \in DOMAIN obj THEN obj[field] ELSE fallback

(***************************************************************************)
(* Shared configuration store (ConfigContext.tsx).                         *)
(***************************************************************************)
EmptyObject == [k \in {} |-> k]

\* A store that would spread the new object over the entry it holds.
applyConfigMerging(prev, stepId, config) ==
  [k \in DOMAIN prev \cup {stepId} |->
     IF k = stepId
     THEN IF stepId \in DOMAIN prev
          THEN [f \in DOMAIN prev[k] \cup DOMAIN config |->
                  IF f \in DOMAIN config THEN config[f] ELSE prev[k][f]]
          ELSE config
     ELSE prev[k]]

\* A store that would keep the entry written last only.
applyConfigWithoutSpread(prev, stepId, config) == [k \in {stepId} |-> config]

\* setConfigs(prev => ({ ...prev, [stepId]: config })): the entry is replaced.
applyConfig(prev, stepId, config) ==
  [k \in DOMAIN prev \cup {stepId} |-> IF k = stepId THEN config ELSE prev[k]]

\* The members every object literal inherits from Object.prototype.
ObjectPrototypeMembers ==
  { "__defineGetter__", "__defineSetter__", "__lookupGetter__", "__lookupSetter__",
    "__proto__", "constructor", "hasOwnProperty", "isPrototypeOf",
    "propertyIsEnumerable", "toLocaleString", "toString", "valueOf" }

\* return configs[stepId] || {}   (every stored config is an object: truthy).
\* configs is an object literal, so an id with no entry of its own that names
\* an inherited member reads that member: a function (Object for
\* constructor), Object.prototype for __proto__.
getConfig(cfgs, stepId) ==
  IF stepId \in DOMAIN cfgs THEN cfgs[stepId]
  ELSE IF stepId \in ObjectPrototypeMembers
  THEN IF stepId = "__proto__" THEN [prototype |-> "Object.prototype"]
       ELSE [function |-> IF stepId = "constructor" THEN "Object" ELSE stepId]
  ELSE EmptyObject

(***************************************************************************)
(* Wizard shell (Index.tsx, Sidebar.tsx).                                  *)
(***************************************************************************)
LastStep == 8

\* Sidebar.tsx: the ids of the steps array
SidebarSteps == 0..8

\* Next without Math.min.
goToNextStepUnclamped(prev) == prev + 1

\* Next that would start over after the last step.
goToNextStepWrapping(prev) == IF prev + 1 <= LastStep THEN prev + 1 ELSE 0

\* setActiveStep((prev) => Math.min(prev + 1, 8))
goToNextStep(prev) == IF prev + 1 < LastStep THEN prev + 1 ELSE LastStep

\* The store key each editor step applies under ("none": the step has none).
StepId(step) ==
  CASE step = 2 -> "jenkinsfile"
    [] step = 3 -> "dockerfile"
    [] step = 4 -> "kubernetes"
    [] step = 5 -> "deploymentConfig"
    [] step = 6 -> "monitoringSetup"
    [] OTHER -> "none"

EditorSteps == {2, 3, 4, 5, 6}

(***************************************************************************)
(* Jenkinsfile editor (JenkinsfileSetup.tsx).                              *)
(***************************************************************************)
defaultJenkinsfile ==
  "pipeline {\n"
  \o "  agent any\n"
  \o "  \n"
  \o "  environment {\n"
  \o "    DOCKER_USERNAME = 'DOCKER_USERNAME'\n"
  \o "    IMAGE_NAME = 'go-microservice'\n"
  \o "    IMAGE_TAG = \"${BUILD_NUMBER}\"\n"
  \o "    KUBECONFIG = credentials('kubeconfig')\n"
  \o "  }\n"
  \o "  \n"
  \o "  stages {\n"
  \o "    stage('Checkout') {\n"
  \o "      steps {\n"
  \o "        checkout scm\n"
  \o "      }\n"
  \o "    }\n"
  \o "    \n"
  \o "    stage('Build') {\n"
  \o "      steps {\n"
  \o "        sh 'go build -o app'\n"
  \o "        sh 'go test ./...'\n"
  \o "      }\n"
  \o "    }\n"
  \o "    \n"
  \o "    stage('Docker Build') {\n"
  \o "      steps {\n"
  \o "        withCredentials([string(credentialsId: 'docker-credentials', variable: 'DOCKER_PASSWORD')]) {\n"
  \o "          sh \"docker login -u $DOCKER_USERNAME -p ${DOCKER_PASSWORD}\"\n"
  \o "          sh \"docker build -t $DOCKER_USERNAME/$IMAGE_NAME:${IMAGE_TAG} .\"\n"
  \o "          sh \"docker push $DOCKER_USERNAME/$IMAGE_NAME:${IMAGE_TAG}\"\n"
  \o "        }\n"
  \o "      }\n"
  \o "    }\n"
  \o "    \n"
  \o "    stage('Deploy to Kubernetes') {\n"
  \o "      steps {\n"
  \o "        sh \"envsubst < k8s/deployment.yaml | kubectl apply -f -\"\n"
  \o "        sh \"kubectl apply -f k8s/service.yaml\"\n"
  \o "        sh \"kubectl apply -f k8s/configmap.yaml\"\n"
  \o "        sh \"kubectl rollout status deployment/$IMAGE_NAME\"\n"
  \o "      }\n"
  \o "    }\n"
  \o "    \n"
  \o "    stage('Health Check') {\n"
  \o "      steps {\n"
  \o "        sh 'sleep 10' // Wait for deployment to stabilize\n"
  \o "        sh 'curl -f $(kubectl get svc $IMAGE_NAME -o jsonpath=\"{.status.loadBalancer.ingress[0].ip}\")/health || exit 1'\n"
  \o "      }\n"
  \o "    }\n"
  \o "    \n"
  \o "    stage('Setup Monitoring') {\n"
  \o "      steps {\n"
  \o "        sh \"kubectl apply -f k8s/prometheus.yaml\"\n"
  \o "        sh \"kubectl apply -f k8s/grafana.yaml\"\n"
  \o "      }\n"
  \o "    }\n"
  \o "  }\n"
  \o "  \n"
  \o "  post {\n"
  \o "    success {\n"
  \o "      echo 'Pipeline completed successfully!'\n"
  \o "    }\n"
  \o "    failure {\n"
  \o "      echo 'Pipeline failed!'\n"
  \o "    }\n"
  \o "  }\n"
  \o "}"

Jenkinsfile_defaultVars ==
  [ dockerUsername |-> "DOCKER_USERNAME",
    imageName |-> "go-microservice",
    kubeConfigId |-> "kubeconfig",
    dockerCredentialsId |-> "docker-credentials" ]

\* useState(savedConfig.x || default); the effect on [jenkinsfile, vars]
\* runs once at mount and sets the flag.
Jenkinsfile_mount(cfgs) ==
  LET savedConfig == getConfig(cfgs, "jenkinsfile") IN
  [ step |-> 2,
    jenkinsfile |-> OrString(savedConfig, "jenkinsfile", defaultJenkinsfile),
    vars |-> OrObject(savedConfig, "vars", Jenkinsfile_defaultVars),
    hasUnsavedChanges |-> TRUE ]

\* The buffer handleVarChange derives: from defaultJenkinsfile, the rule of
\* the field changed.
Jenkinsfile_updated(name, value) ==
  CASE name = "dockerUsername" ->
         ReplaceString(defaultJenkinsfile, "DOCKER_USERNAME", value)
    [] name = "imageName" ->
         ReplaceAll(
           ReplaceAll(defaultJenkinsfile, <<Lit("IMAGE_NAME = 'go-microservice'")>>,
                      "IMAGE_NAME = '" \o value \o "'"),
           <<Lit("deployment/go-microservice")>>, "deployment/" \o value)
    [] name = "kubeConfigId" ->
         ReplaceAll(defaultJenkinsfile, <<Lit("credentials('kubeconfig')")>>,
                    "credentials('" \o value \o "')")
    [] name = "dockerCredentialsId" ->
         ReplaceAll(defaultJenkinsfile, <<Lit("credentials('docker-credentials')")>>,
                    "credentials('" \o value \o "')")
    [] OTHER -> defaultJenkinsfile

\* A handler that would apply its rule to the text the buffer holds.
Jenkinsfile_handleVarChangeOnBuffer(l, name, value) ==
  [ l EXCEPT !.vars = [l.vars EXCEPT ![name] = value],
             !.jenkinsfile =
                ReplaceAll(l.jenkinsfile, <<Lit(Jenkinsfile_defaultVars[name])>>, value),
             !.hasUnsavedChanges = TRUE ]

\* handleVarChange: setVars; the buffer is set from defaultJenkinsfile.
Jenkinsfile_handleVarChange(l, name, value) ==
  [ l EXCEPT !.vars = [l.vars EXCEPT ![name] = value],
             !.jenkinsfile = Jenkinsfile_updated(name, value),
             !.hasUnsavedChanges = TRUE ]

\* const currentConfig = { jenkinsfile, vars }
Jenkinsfile_currentConfig(l) == [jenkinsfile |-> l.jenkinsfile, vars |-> l.vars]

(***************************************************************************)
(* Dockerfile editor (DockerfileSetup.tsx).                                *)
(***************************************************************************)
defaultDockerfile ==
  "# Build stage\n"
  \o "FROM golang:1.18-alpine AS builder\n\n"
  \o "WORKDIR /app\n\n"
  \o "# Copy go mod and sum files\n"
  \o "COPY go.mod go.sum ./\n\n"
  \o "# Download dependencies\n"
  \o "RUN go mod download\n\n"
  \o "# Copy source code\n"
  \o "COPY . .\n\n"
  \o "# Build the application\n"
  \o "RUN CGO_ENABLED=0 GOOS=linux go build -a -installsuffix cgo -o main ./cmd/api\n\n"
  \o "# Final stage\n"
  \o "FROM alpine:3.16\n\n"
  \o "WORKDIR /app\n\n"
  \o "# Install runtime dependencies\n"
  \o "RUN apk --no-cache add ca-certificates\n\n"
  \o "# Copy binary from build stage\n"
  \o "COPY --from=builder /app/main .\n\n"
  \o "# Copy configuration files\n"
  \o "COPY --from=builder /app/config/config.yaml ./config/\n\n"
  \o "# Expose the application port\n"
  \o "EXPOSE 8080\n\n"
  \o "# Set the entry point\n"
  \o "CMD [\"./main\"]"

Dockerfile_defaultVars ==
  [ goVersion |-> "1.18-alpine",
    baseImage |-> "alpine:3.16",
    port |-> "8080",
    mainPath |-> "./cmd/api" ]

Dockerfile_mount(cfgs) ==
  LET savedConfig == getConfig(cfgs, "dockerfile") IN
  [ step |-> 3,
    dockerfile |-> OrString(savedConfig, "dockerfile", defaultDockerfile),
    vars |-> OrObject(savedConfig, "vars", Dockerfile_defaultVars),
    hasUnsavedChanges |-> TRUE ]

\* The buffer handleVarChange derives: from defaultDockerfile, the rule of
\* the field changed.  The dots of /golang:1.18-alpine/ and /alpine:3.16/ are
\* not escaped: each stands for any character.
Dockerfile_updated(name, value) ==
  CASE name = "goVersion" ->
         ReplaceAll(defaultDockerfile, <<Lit("golang:1"), Dot, Lit("18-alpine")>>,
                    "golang:" \o value)
    [] name = "baseImage" ->
         ReplaceAll(defaultDockerfile, <<Lit("alpine:3"), Dot, Lit("16")>>, value)
    [] name = "port" ->
         ReplaceAll(defaultDockerfile, <<Lit("EXPOSE 8080")>>, "EXPOSE " \o value)
    [] name = "mainPath" ->
         ReplaceAll(defaultDockerfile, <<Lit("./cmd/api")>>, value)
    [] OTHER -> defaultDockerfile

Dockerfile_handleVarChange(l, name, value) ==
  [ l EXCEPT !.vars = [l.vars EXCEPT ![name] = value],
             !.dockerfile = Dockerfile_updated(name, value),
             !.hasUnsavedChanges = TRUE ]

\* const currentConfig = { dockerfile, vars }
Dockerfile_currentConfig(l) == [dockerfile |-> l.dockerfile, vars |-> l.vars]

(***************************************************************************)
(* Deployment configuration editor (DeploymentConfig.tsx): three buffers   *)
(* and a settings object, no substitution rule.                            *)
(***************************************************************************)
defaultEnvSampleFile ==
  "# Jenkins Configuration\n"
  \o "JENKINS_URL=http://jenkins.example.com:8080\n"
  \o "JENKINS_USER=admin\n"
  \o "JENKINS_API_TOKEN=your-api-token\n\n"
  \o "# Docker Registry\n"
  \o "DOCKER_REGISTRY_URL=https://index.docker.io/v1/\n"
  \o "DOCKER_USERNAME=your-username\n"
  \o "DOCKER_PASSWORD=your-secure-password\n\n"
  \o "# Kubernetes\n"
  \o "KUBE_CONFIG_PATH=/path/to/your/kubeconfig\n"
  \o "KUBE_NAMESPACE=default\n"
  \o "KUBE_CONTEXT=production\n\n"
  \o "# Application\n"
  \o "APP_NAME=go-microservice\n"
  \o "APP_VERSION=1.0.0\n"

defaultReadmeFile ==
  "# CI/CD Pipeline with Jenkins, Docker, and Kubernetes\n\n"
  \o "This repository contains the necessary configuration files to set up a complete CI/CD pipeline for a Go microservice using Jenkins, Docker, and Kubernetes.\n\n"
  \o "## Application Overview\n\n"
  \o "This is a Go-based microservice that performs calculations and stores data in Redis. It provides a RESTful API for interacting with the service.\n\n"
  \o "## Technology Stack\n\n"
  \o "- **Go**: Programming language for the application\n"
  \o "- **Redis**: For data storage\n"
  \o "- **Jenkins**: CI/CD automation\n"
  \o "- **Docker**: For containerization\n"
  \o "- **Kubernetes**: For container orchestration\n"
  \o "- **Prometheus/Grafana**: For monitoring\n\n"
  \o "## Repository Structure\n\n"
  \o "- " \o Backquote \o "/cmd/api" \o Backquote \o ": Application code\n"
  \o "- " \o Backquote \o "/k8s" \o Backquote \o ": Kubernetes manifests\n"
  \o "- " \o Backquote \o "/config" \o Backquote \o ": Configuration files\n"
  \o "- " \o Backquote \o "Dockerfile" \o Backquote \o ": Container definition\n"
  \o "- " \o Backquote \o "Jenkinsfile" \o Backquote \o ": Jenkins pipeline definition\n\n"
  \o "## CI/CD Pipeline\n\n"
  \o "The CI/CD pipeline consists of the following stages:\n\n"
  \o "1. **Code Checkout**: Pull the latest code from the repository\n"
  \o "2. **Unit Testing**: Run automated tests\n"
  \o "3. **Docker Build**: Build the application container\n"
  \o "4. **Push to Registry**: Push the container to Docker Hub\n"
  \o "5. **Deploy to Kubernetes**: Deploy the application to Kubernetes\n"
  \o "6. **Monitoring**: Set up monitoring with Prometheus and Grafana\n\n"
  \o "## Getting Started\n\n"
  \o "### Prerequisites\n\n"
  \o "- Jenkins server with necessary plugins\n"
  \o "- Docker installed on Jenkins agents\n"
  \o "- Kubernetes cluster\n"
  \o "- Git repository\n\n"
  \o "### Setup Instructions\n\n"
  \o "1. Configure Jenkins credentials for Git, Docker, and Kubernetes\n"
  \o "2. Create a Jenkins pipeline job pointing to this repository\n"
  \o "3. Set up the required environment variables (see " \o Backquote \o ".env.sample" \o Backquote \o ")\n"
  \o "4. Run the pipeline\n\n"
  \o "## Configuration\n\n"
  \o "See the " \o Backquote \o ".env.sample" \o Backquote \o " file for the required environment variables.\n\n"
  \o "## Monitoring\n\n"
  \o "The application is set up with Prometheus for metrics collection and Grafana for visualization.\n"

defaultDocumentationFile ==
  "# Pipeline Flow Documentation\n\n"
  \o "## Jenkins Pipeline\n\n"
  \o "The Jenkins pipeline is defined in the Jenkinsfile and consists of several stages:\n\n"
  \o "### 1. Checkout\n\n"
  \o "This stage checks out the code from the Git repository.\n\n"
  \o Backquote \o Backquote \o Backquote \o "groovy\n"
  \o "stage('Checkout') {\n"
  \o "  steps {\n"
  \o "    checkout scm\n"
  \o "  }\n"
  \o "}\n"
  \o Backquote \o Backquote \o Backquote \o "\n\n"
  \o "### 2. Unit Tests\n\n"
  \o "This stage runs the Go unit tests.\n\n"
  \o Backquote \o Backquote \o Backquote \o "groovy\n"
  \o "stage('Unit Tests') {\n"
  \o "  steps {\n"
  \o "    container('golang') {\n"
  \o "      sh 'go test -v ./...'\n"
  \o "    }\n"
  \o "  }\n"
  \o "}\n"
  \o Backquote \o Backquote \o Backquote \o "\n\n"
  \o "### 3. Build Docker Image\n\n"
  \o "This stage builds the Docker image.\n\n"
  \o Backquote \o Backquote \o Backquote \o "groovy\n"
  \o "stage('Build Docker Image') {\n"
  \o "  steps {\n"
  \o "    container('docker') {\n"
  \o "      sh '''\n"
  \o "        echo $DOCKER_CREDENTIALS_PSW | docker login -u $DOCKER_CREDENTIALS_USR --password-stdin\n"
  \o "        docker build -t $DOCKER_REGISTRY/$IMAGE_NAME:$IMAGE_TAG -f $DOCKERFILE_PATH .\n"
  \o "      '''\n"
  \o "    }\n"
  \o "  }\n"
  \o "}\n"
  \o Backquote \o Backquote \o Backquote \o "\n\n"
  \o "### 4. Push Docker Image\n\n"
  \o "This stage pushes the Docker image to the registry.\n\n"
  \o Backquote \o Backquote \o Backquote \o "groovy\n"
  \o "stage('Push Docker Image') {\n"
  \o "  steps {\n"
  \o "    container('docker') {\n"
  \o "      sh 'docker push $DOCKER_REGISTRY/$IMAGE_NAME:$IMAGE_TAG'\n"
  \o "      sh 'docker tag $DOCKER_REGISTRY/$IMAGE_NAME:$IMAGE_TAG $DOCKER_REGISTRY/$IMAGE_NAME:latest'\n"
  \o "      sh 'docker push $DOCKER_REGISTRY/$IMAGE_NAME:latest'\n"
  \o "    }\n"
  \o "  }\n"
  \o "}\n"
  \o Backquote \o Backquote \o Backquote \o "\n\n"
  \o "### 5. Deploy to Kubernetes\n\n"
  \o "This stage deploys the application to Kubernetes.\n\n"
  \o Backquote \o Backquote \o Backquote \o "groovy\n"
  \o "stage('Deploy to Kubernetes') {\n"
  \o "  steps {\n"
  \o "    container('kubectl') {\n"
  \o "      sh '''\n"
  \o "        export KUBECONFIG=$KUBECONFIG\n"
  \o "        kubectl apply -f k8s/deployment.yaml\n"
  \o "        kubectl apply -f k8s/service.yaml\n"
  \o "        kubectl apply -f k8s/configmap.yaml\n"
  \o "        kubectl set image deployment/go-microservice go-microservice=$DOCKER_REGISTRY/$IMAGE_NAME:$IMAGE_TAG\n"
  \o "      '''\n"
  \o "    }\n"
  \o "  }\n"
  \o "}\n"
  \o Backquote \o Backquote \o Backquote \o "\n\n"
  \o "## Kubernetes Configuration\n\n"
  \o "The application is deployed to Kubernetes using the following manifests:\n\n"
  \o "- " \o Backquote \o "deployment.yaml" \o Backquote \o ": Defines the application deployment\n"
  \o "- " \o Backquote \o "service.yaml" \o Backquote \o ": Exposes the application\n"
  \o "- " \o Backquote \o "configmap.yaml" \o Backquote \o ": Contains application configuration\n"
  \o "- " \o Backquote \o "redis.yaml" \o Backquote \o ": Deploys Redis for data storage\n\n"
  \o "## Docker Configuration\n\n"
  \o "The application is containerized using a multi-stage Dockerfile:\n\n"
  \o "1. Build stage: Compiles the Go application\n"
  \o "2. Final stage: Creates a minimal container with just the binary\n"

DeploymentConfig_defaultSettings ==
  [ companyName |-> "Your Company",
    projectName |-> "Go Microservice CI/CD Pipeline",
    enableSlackNotifications |-> TRUE,
    slackChannel |-> "#deployments",
    enableEmailNotifications |-> FALSE,
    emailRecipients |-> "devops@example.com",
    includeGithubWorkflows |-> TRUE ]

DeploymentConfig_mount(cfgs) ==
  LET savedConfig == getConfig(cfgs, "deploymentConfig") IN
  [ step |-> 5,
    envSampleFile |-> OrString(savedConfig, "envSampleFile", defaultEnvSampleFile),
    readmeFile |-> OrString(savedConfig, "readmeFile", defaultReadmeFile),
    documentationFile |->
      OrString(savedConfig, "documentationFile", defaultDocumentationFile),
    settings |-> OrObject(savedConfig, "settings", DeploymentConfig_defaultSettings),
    hasUnsavedChanges |-> TRUE ]

\* setSettings(prev => ({ ...prev, [key]: value }))
DeploymentConfig_handleSettingsChange(l, key, value) ==
  [ l EXCEPT !.settings = [l.settings EXCEPT ![key] = value],
             !.hasUnsavedChanges = TRUE ]

\* const currentConfig = { envSampleFile, readmeFile, documentationFile, settings }
DeploymentConfig_currentConfig(l) ==
  [ envSampleFile |-> l.envSampleFile,
    readmeFile |-> l.readmeFile,
    documentationFile |-> l.documentationFile,
    settings |-> l.settings ]

(***************************************************************************)
(* Kubernetes editor (KubernetesSetup.tsx).                                *)
(***************************************************************************)
defaultDeploymentYaml ==
  "apiVersion: apps/v1\n"
  \o "kind: Deployment\n"
  \o "metadata:\n"
  \o "  name: go-microservice\n"
  \o "  namespace: default\n"
  \o "  labels:\n"
  \o "    app: go-microservice\n"
  \o "spec:\n"
  \o "  replicas: 2\n"
  \o "  selector:\n"
  \o "    matchLabels:\n"
  \o "      app: go-microservice\n"
  \o "  strategy:\n"
  \o "    type: RollingUpdate\n"
  \o "    rollingUpdate:\n"
  \o "      maxSurge: 1\n"
  \o "      maxUnavailable: 0\n"
  \o "  template:\n"
  \o "    metadata:\n"
  \o "      labels:\n"
  \o "        app: go-microservice\n"
  \o "    spec:\n"
  \o "      containers:\n"
  \o "      - name: go-microservice\n"
  \o "        image: DOCKER_USERNAME/go-microservice:latest\n"
  \o "        imagePullPolicy: Always\n"
  \o "        ports:\n"
  \o "        - containerPort: 8080\n"
  \o "        resources:\n"
  \o "          requests:\n"
  \o "            cpu: 100m\n"
  \o "            memory: 128Mi\n"
  \o "          limits:\n"
  \o "            cpu: 300m\n"
  \o "            memory: 256Mi\n"
  \o "        env:\n"
  \o "        - name: REDIS_HOST\n"
  \o "          value: redis\n"
  \o "        - name: REDIS_PORT\n"
  \o "          value: \"6379\"\n"
  \o "        livenessProbe:\n"
  \o "          httpGet:\n"
  \o "            path: /health\n"
  \o "            port: 8080\n"
  \o "          initialDelaySeconds: 10\n"
  \o "          periodSeconds: 10\n"
  \o "        readinessProbe:\n"
  \o "          httpGet:\n"
  \o "            path: /ready\n"
  \o "            port: 8080\n"
  \o "          initialDelaySeconds: 5\n"
  \o "          periodSeconds: 5"

defaultServiceYaml ==
  "apiVersion: v1\n"
  \o "kind: Service\n"
  \o "metadata:\n"
  \o "  name: go-microservice\n"
  \o "  namespace: default\n"
  \o "  labels:\n"
  \o "    app: go-microservice\n"
  \o "spec:\n"
  \o "  type: ClusterIP\n"
  \o "  ports:\n"
  \o "  - port: 80\n"
  \o "    targetPort: 8080\n"
  \o "    protocol: TCP\n"
  \o "    name: http\n"
  \o "  selector:\n"
  \o "    app: go-microservice"

defaultRedisYaml ==
  "apiVersion: apps/v1\n"
  \o "kind: Deployment\n"
  \o "metadata:\n"
  \o "  name: redis\n"
  \o "  namespace: default\n"
  \o "  labels:\n"
  \o "    app: redis\n"
  \o "spec:\n"
  \o "  replicas: 1\n"
  \o "  selector:\n"
  \o "    matchLabels:\n"
  \o "      app: redis\n"
  \o "  template:\n"
  \o "    metadata:\n"
  \o "      labels:\n"
  \o "        app: redis\n"
  \o "    spec:\n"
  \o "      containers:\n"
  \o "      - name: redis\n"
  \o "        image: redis:6.2-alpine\n"
  \o "        ports:\n"
  \o "        - containerPort: 6379\n"
  \o "        resources:\n"
  \o "          requests:\n"
  \o "            cpu: 100m\n"
  \o "            memory: 128Mi\n"
  \o "          limits:\n"
  \o "            cpu: 200m\n"
  \o "            memory: 256Mi\n"
  \o "---\n"
  \o "apiVersion: v1\n"
  \o "kind: Service\n"
  \o "metadata:\n"
  \o "  name: redis\n"
  \o "  namespace: default\n"
  \o "  labels:\n"
  \o "    app: redis\n"
  \o "spec:\n"
  \o "  type: ClusterIP\n"
  \o "  ports:\n"
  \o "  - port: 6379\n"
  \o "    targetPort: 6379\n"
  \o "    protocol: TCP\n"
  \o "  selector:\n"
  \o "    app: redis"

defaultConfigMapYaml ==
  "apiVersion: v1\n"
  \o "kind: ConfigMap\n"
  \o "metadata:\n"
  \o "  name: go-microservice-config\n"
  \o "  namespace: default\n"
  \o "data:\n"
  \o "  config.yaml: |\n"
  \o "    server:\n"
  \o "      port: 8080\n"
  \o "      timeout: 30s\n"
  \o "    \n"
  \o "    redis:\n"
  \o "      host: redis\n"
  \o "      port: 6379\n"
  \o "      db: 0\n"
  \o "    \n"
  \o "    logging:\n"
  \o "      level: info\n"
  \o "      format: json"

defaultPersistentVolumeYaml ==
  "apiVersion: v1\n"
  \o "kind: PersistentVolume\n"
  \o "metadata:\n"
  \o "  name: APP_NAME-pv\n"
  \o "  namespace: NAMESPACE\n"
  \o "  labels:\n"
  \o "    app: APP_NAME\n"
  \o "spec:\n"
  \o "  capacity:\n"
  \o "    storage: 5Gi\n"
  \o "  accessModes:\n"
  \o "    - ReadWriteOnce\n"
  \o "  persistentVolumeReclaimPolicy: Retain\n"
  \o "  storageClassName: STORAGE_CLASS\n"
  \o "  CLOUD_PROVIDER_SPECIFIC\n"

defaultPersistentVolumeClaimYaml ==
  "apiVersion: v1\n"
  \o "kind: PersistentVolumeClaim\n"
  \o "metadata:\n"
  \o "  name: APP_NAME-pvc\n"
  \o "  namespace: NAMESPACE\n"
  \o "  labels:\n"
  \o "    app: APP_NAME\n"
  \o "spec:\n"
  \o "  accessModes:\n"
  \o "    - ReadWriteOnce\n"
  \o "  storageClassName: STORAGE_CLASS\n"
  \o "  resources:\n"
  \o "    requests:\n"
  \o "      storage: 5Gi\n"

cloudProviderConfigs(provider) ==
  CASE provider = "aws" ->
         "  awsElasticBlockStore:\n"
         \o "    volumeID: vol-XXXX # Replace with your EBS volume ID\n"
         \o "    fsType: ext4"
    [] provider = "gcp" ->
         "  gcePersistentDisk:\n"
         \o "    pdName: DISK_NAME # Replace with your GCP disk name\n"
         \o "    fsType: ext4"
    [] provider = "azure" ->
         "  azureDisk:\n"
         \o "    diskName: DISK_NAME # Replace with your Azure disk name\n"
         \o "    diskURI: https://STORAGE_ACCOUNT.blob.core.windows.net/vhds/DISK_NAME.vhd\n"
         \o "    kind: Managed\n"
         \o "    fsType: ext4"
    [] provider = "onprem" ->
         "  hostPath:\n"
         \o "    path: PATH_VALUE\n"
         \o "    type: DirectoryOrCreate"

CloudProviders == {"aws", "gcp", "azure", "onprem"}

storageClasses(provider) ==
  CASE provider = "aws" ->
         <<"gp2", "gp3", "io1", "io2", "sc1", "st1", "standard">>
    [] provider = "gcp" -> <<"standard", "premium-rwo", "balanced", "ssd">>
    [] provider = "azure" ->
         <<"default", "managed-premium", "managed-csi", "managed-csi-premium">>
    [] provider = "onprem" -> <<"local-storage", "nfs", "local-path", "custom">>

Kubernetes_defaultVars ==
  [ namespace |-> "default",
    replicas |-> "2",
    serviceType |-> "ClusterIP",
    dockerUsername |-> "DOCKER_USERNAME",
    appName |-> "go-microservice",
    redisVersion |-> "6.2-alpine" ]

Kubernetes_mount(cfgs) ==
  LET savedConfig == getConfig(cfgs, "kubernetes") IN
  [ step |-> 4,
    deploymentYaml |-> OrString(savedConfig, "deploymentYaml", defaultDeploymentYaml),
    serviceYaml |-> OrString(savedConfig, "serviceYaml", defaultServiceYaml),
    redisYaml |-> OrString(savedConfig, "redisYaml", defaultRedisYaml),
    configMapYaml |-> OrString(savedConfig, "configMapYaml", defaultConfigMapYaml),
    persistentVolumeYaml |->
      OrString(savedConfig, "persistentVolumeYaml", defaultPersistentVolumeYaml),
    persistentVolumeClaimYaml |->
      OrString(savedConfig, "persistentVolumeClaimYaml",
               defaultPersistentVolumeClaimYaml),
    enablePersistence |-> OrBool(savedConfig, "enablePersistence", FALSE),
    cloudProvider |-> OrString(savedConfig, "cloudProvider", "aws"),
    storageClass |-> OrString(savedConfig, "storageClass", storageClasses("aws")[1]),
    diskSize |-> OrString(savedConfig, "diskSize", "5"),
    volumePath |-> OrString(savedConfig, "volumePath", "/data"),
    vars |-> OrObject(savedConfig, "vars", Kubernetes_defaultVars),
    hasUnsavedChanges |-> TRUE ]

\* The component's state variables the flag effect depends on, vars apart
\* (vars is a fresh object after every setVars).
Kubernetes_deps ==
  { "deploymentYaml", "serviceYaml", "redisYaml", "configMapYaml",
    "persistentVolumeYaml", "persistentVolumeClaimYaml", "enablePersistence",
    "cloudProvider", "storageClass", "diskSize", "volumePath" }

\* updatePersistenceYamls reads cloudProvider, volumePath, storageClass and
\* diskSize of the render the handler was created in: l is that state.
Kubernetes_cloudConfig(l) ==
  IF l.cloudProvider = "onprem" /\ l.volumePath # ""
  THEN ReplaceAll(cloudProviderConfigs(l.cloudProvider), <<Lit("PATH_VALUE")>>,
                  l.volumePath)
  ELSE cloudProviderConfigs(l.cloudProvider)

\* The chain of .replace calls, the first innermost.
Kubernetes_updatedPV(l, namespace, appName) ==
  ReplaceAll(
    ReplaceAll(
      ReplaceAll(
        ReplaceAll(
          ReplaceAll(
            ReplaceAll(defaultPersistentVolumeYaml, <<Lit("NAMESPACE")>>, namespace),
            <<Lit("APP_NAME")>>, appName),
          <<Lit("STORAGE_CLASS")>>, l.storageClass),
        <<Lit("CLOUD_PROVIDER_SPECIFIC")>>, Kubernetes_cloudConfig(l)),
      <<Lit("DISK_NAME")>>, appName \o "-disk"),
    <<Lit("storage: 5Gi")>>, "storage: " \o l.diskSize \o "Gi")

Kubernetes_updatedPVC(l, namespace, appName) ==
  ReplaceAll(
    ReplaceAll(
      ReplaceAll(
        ReplaceAll(defaultPersistentVolumeClaimYaml, <<Lit("NAMESPACE")>>, namespace),
        <<Lit("APP_NAME")>>, appName),
      <<Lit("STORAGE_CLASS")>>, l.storageClass),
    <<Lit("5Gi")>>, l.diskSize \o "Gi")

\* l: the state the handler read; l2: the state with the handler's earlier
\* setState calls; the two buffers are set from l.
Kubernetes_updatePersistenceYamls(l, l2, namespace, appName) ==
  [ l2 EXCEPT !.persistentVolumeYaml = Kubernetes_updatedPV(l, namespace, appName),
              !.persistentVolumeClaimYaml =
                 Kubernetes_updatedPVC(l, namespace, appName) ]

\* A handler that would apply the rule of the changed field only.
Kubernetes_varValueFromDefaults(l, name, value, f) == IF name = f THEN value ELSE Kubernetes_defaultVars[f]

\* The value handleVarChange uses for field f: the new value for the field
\* being changed, the rendered vars for the others.
Kubernetes_varValue(l, name, value, f) == IF name = f THEN value ELSE l.vars[f]

Kubernetes_updatedDeploymentYaml(l, name, value) ==
  ReplaceAll(
    ReplaceAll(
      ReplaceAll(
        ReplaceAll(defaultDeploymentYaml, <<Lit("namespace: default")>>,
          "namespace: " \o Kubernetes_varValue(l, name, value, "namespace")),
        <<Lit("replicas: 2")>>,
        "replicas: " \o Kubernetes_varValue(l, name, value, "replicas")),
      <<Lit("DOCKER_USERNAME")>>, Kubernetes_varValue(l, name, value, "dockerUsername")),
    <<Lit("go-microservice")>>, Kubernetes_varValue(l, name, value, "appName"))

Kubernetes_updatedServiceYaml(l, name, value) ==
  ReplaceAll(
    ReplaceAll(
      ReplaceAll(defaultServiceYaml, <<Lit("namespace: default")>>,
        "namespace: " \o Kubernetes_varValue(l, name, value, "namespace")),
      <<Lit("type: ClusterIP")>>,
      "type: " \o Kubernetes_varValue(l, name, value, "serviceType")),
    <<Lit("go-microservice")>>, Kubernetes_varValue(l, name, value, "appName"))

\* The dot of /redis:6.2-alpine/ is not escaped.
Kubernetes_updatedRedisYaml(l, name, value) ==
  ReplaceAll(
    ReplaceAll(defaultRedisYaml, <<Lit("namespace: default")>>,
      "namespace: " \o Kubernetes_varValue(l, name, value, "namespace")),
    <<Lit("redis:6"), Dot, Lit("2-alpine")>>,
    "redis:" \o Kubernetes_varValue(l, name, value, "redisVersion"))

Kubernetes_updatedConfigMapYaml(l, name, value) ==
  ReplaceAll(
    ReplaceAll(defaultConfigMapYaml, <<Lit("namespace: default")>>,
      "namespace: " \o Kubernetes_varValue(l, name, value, "namespace")),
    <<Lit("go-microservice-config")>>,
    Kubernetes_varValue(l, name, value, "appName") \o "-config")

Kubernetes_handleVarChange(l, name, value) ==
  LET l2 == [ l EXCEPT !.vars = [l.vars EXCEPT ![name] = value],
                       !.deploymentYaml = Kubernetes_updatedDeploymentYaml(l, name, value),
                       !.serviceYaml = Kubernetes_updatedServiceYaml(l, name, value),
                       !.redisYaml = Kubernetes_updatedRedisYaml(l, name, value),
                       !.configMapYaml = Kubernetes_updatedConfigMapYaml(l, name, value),
                       !.hasUnsavedChanges = TRUE ]
  IN Kubernetes_updatePersistenceYamls(l, l2,
       Kubernetes_varValue(l, name, value, "namespace"),
       Kubernetes_varValue(l, name, value, "appName"))

\* The flag effect after a handler that sets only strings and booleans: it
\* runs when one of them changed.
Kubernetes_effect(l, l2) ==
  [ l2 EXCEPT !.hasUnsavedChanges =
      IF \E d \in Kubernetes_deps : l[d] # l2[d] THEN TRUE ELSE l2.hasUnsavedChanges ]

\* A provider change that would leave the storage class selected.
Kubernetes_handleCloudProviderChangeKeepingClass(l, value) ==
  Kubernetes_effect(l,
    Kubernetes_updatePersistenceYamls(l, [l EXCEPT !.cloudProvider = value],
      l.vars.namespace, l.vars.appName))

\* handleCloudProviderChange: setCloudProvider(value);
\* setStorageClass(storageClasses[value][0]); updatePersistenceYamls(...)
Kubernetes_handleCloudProviderChange(l, value) ==
  Kubernetes_effect(l,
    Kubernetes_updatePersistenceYamls(l,
      [ l EXCEPT !.cloudProvider = value,
                 !.storageClass = storageClasses(value)[1] ],
      l.vars.namespace, l.vars.appName))

Kubernetes_handleStorageClassChange(l, value) ==
  Kubernetes_effect(l,
    Kubernetes_updatePersistenceYamls(l, [l EXCEPT !.storageClass = value],
      l.vars.namespace, l.vars.appName))

\* text.replace(/storage: \d+Gi/g, `storage: ${newDiskSize}Gi`)
ReplaceStorageSize(text, newDiskSize) ==
  ReplaceAll(text, <<Lit("storage: "), Digits, Lit("Gi")>>,
             "storage: " \o newDiskSize \o "Gi")

Kubernetes_handleDiskSizeChange(l, newDiskSize) ==
  Kubernetes_effect(l,
    IF l.persistentVolumeYaml # "" /\ l.persistentVolumeClaimYaml # ""
    THEN [ l EXCEPT !.diskSize = newDiskSize,
                    !.persistentVolumeYaml =
                       ReplaceStorageSize(l.persistentVolumeYaml, newDiskSize),
                    !.persistentVolumeClaimYaml =
                       ReplaceStorageSize(l.persistentVolumeClaimYaml, newDiskSize) ]
    ELSE Kubernetes_updatePersistenceYamls(l, [l EXCEPT !.diskSize = newDiskSize],
           l.vars.namespace, l.vars.appName))

\* text.replace(/path: .*(\n|\r|$)/m, `path: ${newPath}\n`): the first
\* "path: " with the rest of its line and the line's terminator.
ReplacePathLine(text, newPath) ==
  ReplaceFirst(text,
    <<Lit("path: "), DotStar, Group(<< <<Lit("\n")>>, <<Lit("\r")>>, <<LineEnd>> >>)>>,
    "path: " \o newPath \o "\n")

\* The Volume Path input is rendered only when cloudProvider === 'onprem'.
Kubernetes_handleVolumePathChange(l, newPath) ==
  Kubernetes_effect(l,
    IF l.cloudProvider = "onprem" /\ l.persistentVolumeYaml # ""
    THEN [ l EXCEPT !.volumePath = newPath,
                    !.persistentVolumeYaml =
                       ReplacePathLine(l.persistentVolumeYaml, newPath) ]
    ELSE Kubernetes_updatePersistenceYamls(l, [l EXCEPT !.volumePath = newPath],
           l.vars.namespace, l.vars.appName))

Kubernetes_handlePersistenceToggle(l, checked) ==
  Kubernetes_effect(l,
    IF checked
    THEN Kubernetes_updatePersistenceYamls(l, [l EXCEPT !.enablePersistence = checked],
           l.vars.namespace, l.vars.appName)
    ELSE [l EXCEPT !.enablePersistence = checked])

Kubernetes_currentConfig(l) ==
  [ deploymentYaml |-> l.deploymentYaml,
    serviceYaml |-> l.serviceYaml,
    redisYaml |-> l.redisYaml,
    configMapYaml |-> l.configMapYaml,
    persistentVolumeYaml |-> l.persistentVolumeYaml,
    persistentVolumeClaimYaml |-> l.persistentVolumeClaimYaml,
    enablePersistence |-> l.enablePersistence,
    cloudProvider |-> l.cloudProvider,
    storageClass |-> l.storageClass,
    diskSize |-> l.diskSize,
    volumePath |-> l.volumePath,
    vars |-> l.vars ]

(***************************************************************************)
(* Monitoring editor (MonitoringSetup.tsx).  Its rules rewrite the current *)
(* buffers.                                                                *)
(***************************************************************************)
defaultPrometheusYaml ==
  "apiVersion: v1\n"
  \o "kind: ConfigMap\n"
  \o "metadata:\n"
  \o "  name: prometheus-config\n"
  \o "  namespace: monitoring\n"
  \o "data:\n"
  \o "  prometheus.yml: |\n"
  \o "    global:\n"
  \o "      scrape_interval: 15s\n"
  \o "      evaluation_interval: 15s\n"
  \o "    \n"
  \o "    scrape_configs:\n"
  \o "      - job_name: 'prometheus'\n"
  \o "        static_configs:\n"
  \o "          - targets: ['localhost:9090']\n"
  \o "      \n"
  \o "      - job_name: 'go-microservice'\n"
  \o "        kubernetes_sd_configs:\n"
  \o "          - role: pod\n"
  \o "        relabel_configs:\n"
  \o "          - source_labels: [__meta_kubernetes_pod_label_app]\n"
  \o "            action: keep\n"
  \o "            regex: go-microservice\n"
  \o "          - source_labels: [__meta_kubernetes_pod_container_port_name]\n"
  \o "            action: keep\n"
  \o "            regex: metrics\n"
  \o "          \n"
  \o "      - job_name: 'kubernetes-nodes'\n"
  \o "        kubernetes_sd_configs:\n"
  \o "          - role: node\n"
  \o "        relabel_configs:\n"
  \o "          - action: labelmap\n"
  \o "            regex: __meta_kubernetes_node_label_(.+)\n"
  \o "      \n"
  \o "      - job_name: 'kubernetes-pods'\n"
  \o "        kubernetes_sd_configs:\n"
  \o "          - role: pod\n"
  \o "        relabel_configs:\n"
  \o "          - source_labels: [__meta_kubernetes_pod_annotation_prometheus_io_scrape]\n"
  \o "            action: keep\n"
  \o "            regex: true\n"
  \o "---\n"
  \o "apiVersion: apps/v1\n"
  \o "kind: Deployment\n"
  \o "metadata:\n"
  \o "  name: prometheus\n"
  \o "  namespace: monitoring\n"
  \o "spec:\n"
  \o "  replicas: 1\n"
  \o "  selector:\n"
  \o "    matchLabels:\n"
  \o "      app: prometheus\n"
  \o "  template:\n"
  \o "    metadata:\n"
  \o "      labels:\n"
  \o "        app: prometheus\n"
  \o "    spec:\n"
  \o "      containers:\n"
  \o "      - name: prometheus\n"
  \o "        image: prom/prometheus:v2.34.0\n"
  \o "        args:\n"
  \o "          - \"--config.file=/etc/prometheus/prometheus.yml\"\n"
  \o "          - \"--storage.tsdb.path=/prometheus\"\n"
  \o "          - \"--web.console.libraries=/etc/prometheus/console_libraries\"\n"
  \o "          - \"--web.console.templates=/etc/prometheus/consoles\"\n"
  \o "          - \"--web.enable-lifecycle\"\n"
  \o "        ports:\n"
  \o "        - containerPort: 9090\n"
  \o "        volumeMounts:\n"
  \o "        - name: prometheus-config\n"
  \o "          mountPath: /etc/prometheus\n"
  \o "        - name: prometheus-storage\n"
  \o "          mountPath: /prometheus\n"
  \o "      volumes:\n"
  \o "      - name: prometheus-config\n"
  \o "        configMap:\n"
  \o "          name: prometheus-config\n"
  \o "      - name: prometheus-storage\n"
  \o "        emptyDir: {}\n"
  \o "---\n"
  \o "apiVersion: v1\n"
  \o "kind: Service\n"
  \o "metadata:\n"
  \o "  name: prometheus\n"
  \o "  namespace: monitoring\n"
  \o "spec:\n"
  \o "  selector:\n"
  \o "    app: prometheus\n"
  \o "  ports:\n"
  \o "  - port: 9090\n"
  \o "    targetPort: 9090"

defaultGrafanaYaml ==
  "apiVersion: apps/v1\n"
  \o "kind: Deployment\n"
  \o "metadata:\n"
  \o "  name: grafana\n"
  \o "  namespace: monitoring\n"
  \o "spec:\n"
  \o "  replicas: 1\n"
  \o "  selector:\n"
  \o "    matchLabels:\n"
  \o "      app: grafana\n"
  \o "  template:\n"
  \o "    metadata:\n"
  \o "      labels:\n"
  \o "        app: grafana\n"
  \o "    spec:\n"
  \o "      containers:\n"
  \o "      - name: grafana\n"
  \o "        image: grafana/grafana:9.0.0\n"
  \o "        ports:\n"
  \o "        - containerPort: 3000\n"
  \o "          name: http\n"
  \o "        env:\n"
  \o "        - name: GF_SECURITY_ADMIN_USER\n"
  \o "          value: admin\n"
  \o "        - name: GF_SECURITY_ADMIN_PASSWORD\n"
  \o "          value: admin123\n"
  \o "        - name: GF_USERS_ALLOW_SIGN_UP\n"
  \o "          value: \"false\"\n"
  \o "        volumeMounts:\n"
  \o "        - name: grafana-storage\n"
  \o "          mountPath: /var/lib/grafana\n"
  \o "      volumes:\n"
  \o "      - name: grafana-storage\n"
  \o "        emptyDir: {}\n"
  \o "---\n"
  \o "apiVersion: v1\n"
  \o "kind: Service\n"
  \o "metadata:\n"
  \o "  name: grafana\n"
  \o "  namespace: monitoring\n"
  \o "spec:\n"
  \o "  selector:\n"
  \o "    app: grafana\n"
  \o "  ports:\n"
  \o "  - port: 3000\n"
  \o "    targetPort: 3000\n"
  \o "  type: ClusterIP"

defaultDashboardJson ==
  "// ... keep existing code (dashboard JSON definition)"

defaultAlertsYaml ==
  "// ... keep existing code (alerts YAML definition)"

Monitoring_defaultSettings ==
  [ enablePrometheus |-> TRUE,
    enableGrafana |-> TRUE,
    enableAlertManager |-> TRUE,
    prometheusVersion |-> "v2.34.0",
    grafanaVersion |-> "9.0.0",
    namespace |-> "monitoring",
    persistStorage |-> FALSE,
    grafanaAdminPassword |-> "admin123",
    alertManagerReceivers |-> << [name |-> "slack", type |-> "slack"] >>,
    storageClass |-> "standard",
    prometheusStorageSize |-> "10Gi",
    grafanaStorageSize |-> "2Gi",
    storagePath |-> "/var/lib/monitoring" ]

Monitoring_mount(cfgs) ==
  LET savedConfig == getConfig(cfgs, "monitoringSetup") IN
  [ step |-> 6,
    prometheusYaml |-> OrString(savedConfig, "prometheusYaml", defaultPrometheusYaml),
    grafanaYaml |-> OrString(savedConfig, "grafanaYaml", defaultGrafanaYaml),
    dashboardJson |-> OrString(savedConfig, "dashboardJson", defaultDashboardJson),
    alertsYaml |-> OrString(savedConfig, "alertsYaml", defaultAlertsYaml),
    settings |-> OrObject(savedConfig, "settings", Monitoring_defaultSettings),
    hasUnsavedChanges |-> TRUE ]

\* /\d+\.\d+\.\d+/
VersionNumber == <<Digits, Lit("."), Digits, Lit("."), Digits>>

\* A rule that would look for the version of the default template only.
ReplacePrometheusVersionLiteral(text, value) ==
  ReplaceAll(text, <<Lit("prom/prometheus:v2.34.0")>>, "prom/prometheus:" \o value)

\* prometheusYaml.replace(/prom\/prometheus:v\d+\.\d+\.\d+/g, `prom/prometheus:${value}`)
ReplacePrometheusVersion(text, value) ==
  ReplaceAll(text, <<Lit("prom/prometheus:v")>> \o VersionNumber,
             "prom/prometheus:" \o value)

\* grafanaYaml.replace(/grafana\/grafana:\d+\.\d+\.\d+/g, `grafana/grafana:${value}`)
ReplaceGrafanaVersion(text, value) ==
  ReplaceAll(text, <<Lit("grafana/grafana:")>> \o VersionNumber,
             "grafana/grafana:" \o value)

\* text.replace(/      volumes:[\s\S]*?<last>/g, rep): every shortest stretch
\* from a volumes line to the next occurrence of last.
ReplaceVolumes(text, last, rep) ==
  ReplaceAll(text, <<Lit("      volumes:"), Lazy, Lit(last)>>, rep)

\* text.replace(/---\napiVersion: v1\nkind: PersistentVolumeClaim[\s\S]*?storage: .*Gi/g, '')
RemovePVC(text) ==
  ReplaceAll(text,
    << Lit("---\napiVersion: v1\nkind: PersistentVolumeClaim"), Lazy,
       Lit("storage: "), DotStar, Lit("Gi") >>,
    "")

\* text.replace(/storage: .*Gi/g, `storage: ${value}`)
ReplaceStorageGi(text, value) ==
  ReplaceAll(text, <<Lit("storage: "), DotStar, Lit("Gi")>>, "storage: " \o value)

\* text.replace(/storageClassName: .*$/m, `storageClassName: ${value}`): the
\* first "storageClassName: " with the rest of its line.
ReplaceStorageClassName(text, value) ==
  ReplaceFirst(text, <<Lit("storageClassName: "), DotStar, LineEnd>>,
               "storageClassName: " \o value)

\* The template literals of handleSettingsChange, with the settings of the
\* render the handler was created in.
Monitoring_persistentPrometheusStorageParts ==
  << "      volumes:\n"
     \o "      - name: prometheus-config\n"
     \o "        configMap:\n"
     \o "          name: prometheus-config\n"
     \o "      - name: prometheus-storage\n"
     \o "        persistentVolumeClaim:\n"
     \o "          claimName: prometheus-storage\n"
     \o "---\n"
     \o "apiVersion: v1\n"
     \o "kind: PersistentVolumeClaim\n"
     \o "metadata:\n"
     \o "  name: prometheus-storage\n"
     \o "  namespace: ",
     "\n"
     \o "spec:\n"
     \o "  accessModes:\n"
     \o "    - ReadWriteOnce\n"
     \o "  storageClassName: ",
     "\n"
     \o "  resources:\n"
     \o "    requests:\n"
     \o "      storage: " >>

Monitoring_persistentPrometheusStorage(settings) ==
  Monitoring_persistentPrometheusStorageParts[1] \o settings.namespace
  \o Monitoring_persistentPrometheusStorageParts[2] \o settings.storageClass
  \o Monitoring_persistentPrometheusStorageParts[3] \o settings.prometheusStorageSize

Monitoring_persistentGrafanaStorageParts ==
  << "      volumes:\n"
     \o "      - name: grafana-storage\n"
     \o "        persistentVolumeClaim:\n"
     \o "          claimName: grafana-storage\n"
     \o "---\n"
     \o "apiVersion: v1\n"
     \o "kind: PersistentVolumeClaim\n"
     \o "metadata:\n"
     \o "  name: grafana-storage\n"
     \o "  namespace: ",
     "\n"
     \o "spec:\n"
     \o "  accessModes:\n"
     \o "    - ReadWriteOnce\n"
     \o "  storageClassName: ",
     "\n"
     \o "  resources:\n"
     \o "    requests:\n"
     \o "      storage: " >>

Monitoring_persistentGrafanaStorage(settings) ==
  Monitoring_persistentGrafanaStorageParts[1] \o settings.namespace
  \o Monitoring_persistentGrafanaStorageParts[2] \o settings.storageClass
  \o Monitoring_persistentGrafanaStorageParts[3] \o settings.grafanaStorageSize

Monitoring_nonPersistentPrometheusStorage ==
  "      volumes:\n"
  \o "      - name: prometheus-config\n"
  \o "        configMap:\n"
  \o "          name: prometheus-config\n"
  \o "      - name: prometheus-storage\n"
  \o "        emptyDir: {}"

Monitoring_nonPersistentGrafanaStorage ==
  "      volumes:\n"
  \o "      - name: grafana-storage\n"
  \o "        emptyDir: {}"

\* text.includes('PersistentVolumeClaim')
Monitoring_includesPVC(text) == Includes(text, "PersistentVolumeClaim")

Monitoring_updatedPrometheusYaml(l, key, value) ==
  LET text == l.prometheusYaml IN
  CASE key = "prometheusVersion" -> ReplacePrometheusVersion(text, value)
    [] key = "namespace" ->
         ReplaceAll(text, <<Lit("namespace: monitoring")>>, "namespace: " \o value)
    [] key = "persistStorage" /\ value = TRUE ->
         ReplaceVolumes(text, "emptyDir: {}",
                        Monitoring_persistentPrometheusStorage(l.settings))
    [] key = "persistStorage" /\ value = FALSE ->
         ReplaceVolumes(RemovePVC(text), "claimName: prometheus-storage",
                        Monitoring_nonPersistentPrometheusStorage)
    [] key = "storageClass" /\ l.settings.persistStorage /\ Monitoring_includesPVC(text) ->
         ReplaceStorageClassName(text, value)
    [] key = "prometheusStorageSize" /\ l.settings.persistStorage
         /\ Monitoring_includesPVC(text) ->
         ReplaceStorageGi(text, value)
    [] OTHER -> text

Monitoring_updatedGrafanaYaml(l, key, value) ==
  LET text == l.grafanaYaml IN
  CASE key = "grafanaVersion" -> ReplaceGrafanaVersion(text, value)
    [] key = "namespace" ->
         ReplaceAll(text, <<Lit("namespace: monitoring")>>, "namespace: " \o value)
    [] key = "grafanaAdminPassword" ->
         ReplaceAll(text, <<Lit("value: admin123")>>, "value: " \o value)
    [] key = "persistStorage" /\ value = TRUE ->
         ReplaceVolumes(text, "emptyDir: {}",
                        Monitoring_persistentGrafanaStorage(l.settings))
    [] key = "persistStorage" /\ value = FALSE ->
         ReplaceVolumes(RemovePVC(text), "claimName: grafana-storage",
                        Monitoring_nonPersistentGrafanaStorage)
    [] key = "storageClass" /\ l.settings.persistStorage /\ Monitoring_includesPVC(text) ->
         ReplaceStorageClassName(text, value)
    [] key = "grafanaStorageSize" /\ l.settings.persistStorage
         /\ Monitoring_includesPVC(text) ->
         ReplaceStorageGi(text, value)
    [] OTHER -> text

\* setSettings makes a new object, so the flag effect runs.
Monitoring_handleSettingsChange(l, key, value) ==
  [ l EXCEPT !.settings = [l.settings EXCEPT ![key] = value],
             !.prometheusYaml = Monitoring_updatedPrometheusYaml(l, key, value),
             !.grafanaYaml = Monitoring_updatedGrafanaYaml(l, key, value),
             !.hasUnsavedChanges = TRUE ]

\* A currentConfig that would leave out the alerts buffer.
Monitoring_currentConfigWithoutAlerts(l) ==
  [ prometheusYaml |-> l.prometheusYaml,
    grafanaYaml |-> l.grafanaYaml,
    dashboardJson |-> l.dashboardJson,
    settings |-> l.settings ]

\* const currentConfig = { prometheusYaml, grafanaYaml, dashboardJson,
\* alertsYaml, settings }
Monitoring_currentConfig(l) ==
  [ prometheusYaml |-> l.prometheusYaml,
    grafanaYaml |-> l.grafanaYaml,
    dashboardJson |-> l.dashboardJson,
    alertsYaml |-> l.alertsYaml,
    settings |-> l.settings ]

(***************************************************************************)
(* Repository step (RepositorySetup.tsx): local form state only.           *)
(***************************************************************************)
Repository_mount ==
  [ step |-> 1,
    repoConfig |->
      [ repoUrl |-> "https://github.com/yourusername/go-microservice.git",
        branch |-> "main",
        credentials |-> "jenkins-git-credentials",
        jenkinsUrl |-> "http://jenkins.example.com:8080",
        jenkinsCredentials |-> "jenkins-admin-credentials" ] ]

\* setRepoConfig(prev => ({ ...prev, [name]: value }))
Repository_handleChange(l, name, value) ==
  [l EXCEPT !.repoConfig = [l.repoConfig EXCEPT ![name] = value]]

(***************************************************************************)
(* Export step (ExportProject.tsx).                                        *)
(***************************************************************************)
\* Math.floor(Math.random() * 1000) + 1 ranges over 1..1000; the model draws
\* from 1..MaxBuildNumber.
MaxBuildNumber == 2

BuildNumbers == 1..MaxBuildNumber

\* A sample that would never look into the store.
Export_jenkinsVarIgnoringStore(cfgs, field, placeholder) == placeholder

\* configs.jenkinsfile?.vars?.[field] || placeholder
Export_jenkinsVar(cfgs, field, placeholder) ==
  IF /\ "jenkinsfile" \in DOMAIN cfgs
     /\ "vars" \in DOMAIN cfgs["jenkinsfile"]
     /\ field \in DOMAIN cfgs["jenkinsfile"]["vars"]
     /\ cfgs["jenkinsfile"]["vars"][field] # ""
  THEN cfgs["jenkinsfile"]["vars"][field]
  ELSE placeholder

\* configs[stepId] && configs[stepId][field]
Export_hasBuffer(cfgs, stepId, field) ==
  /\ stepId \in DOMAIN cfgs
  /\ field \in DOMAIN cfgs[stepId]
  /\ cfgs[stepId][field] # ""

\* The template literal of the Jenkinsfile sample, its five slots filled.
Export_jenkinsfileParts ==
  << "pipeline {\n"
     \o "  agent any\n"
     \o "  \n"
     \o "  environment {\n"
     \o "    DOCKER_USERNAME = '",
     "'\n"
     \o "    IMAGE_NAME = '",
     "'\n"
     \o "    IMAGE_TAG = \"",
     "\"\n"
     \o "    KUBECONFIG = credentials('",
     "')\n"
     \o "  }\n"
     \o "  \n"
     \o "  stages {\n"
     \o "    stage('Checkout') {\n"
     \o "      steps {\n"
     \o "        checkout scm\n"
     \o "      }\n"
     \o "    }\n"
     \o "    \n"
     \o "    stage('Build') {\n"
     \o "      steps {\n"
     \o "        sh 'go build -o app'\n"
     \o "        sh 'go test ./...'\n"
     \o "      }\n"
     \o "    }\n"
     \o "    \n"
     \o "    stage('Docker Build') {\n"
     \o "      steps {\n"
     \o "        withCredentials([string(credentialsId: '",
     "', variable: 'DOCKER_PASSWORD')]) {\n"
     \o "          sh \"docker login -u $DOCKER_USERNAME -p ${DOCKER_PASSWORD}\"\n"
     \o "          sh \"docker build -t $DOCKER_USERNAME/$IMAGE_NAME:${IMAGE_TAG} .\"\n"
     \o "          sh \"docker push $DOCKER_USERNAME/$IMAGE_NAME:${IMAGE_TAG}\"\n"
     \o "        }\n"
     \o "      }\n"
     \o "    }\n"
     \o "    \n"
     \o "    stage('Deploy to Kubernetes') {\n"
     \o "      steps {\n"
     \o "        sh \"envsubst < k8s/deployment.yaml | kubectl apply -f -\"\n"
     \o "        sh \"kubectl apply -f k8s/service.yaml\"\n"
     \o "        sh \"kubectl apply -f k8s/configmap.yaml\"\n"
     \o "        sh \"kubectl rollout status deployment/$IMAGE_NAME\"\n"
     \o "      }\n"
     \o "    }\n"
     \o "    \n"
     \o "    stage('Health Check') {\n"
     \o "      steps {\n"
     \o "        sh 'sleep 10' // Wait for deployment to stabilize\n"
     \o "        sh 'curl -f $(kubectl get svc $IMAGE_NAME -o jsonpath=\"{.status.loadBalancer.ingress[0].ip}\")/health || exit 1'\n"
     \o "      }\n"
     \o "    }\n"
     \o "    \n"
     \o "    stage('Setup Monitoring') {\n"
     \o "      steps {\n"
     \o "        sh \"kubectl apply -f k8s/prometheus.yaml\"\n"
     \o "        sh \"kubectl apply -f k8s/grafana.yaml\"\n"
     \o "      }\n"
     \o "    }\n"
     \o "  }\n"
     \o "  \n"
     \o "  post {\n"
     \o "    success {\n"
     \o "      echo 'Pipeline completed successfully!'\n"
     \o "    }\n"
     \o "    failure {\n"
     \o "      echo 'Pipeline failed!'\n"
     \o "    }\n"
     \o "  }\n"
     \o "}" >>

Export_jenkinsfileTemplate(dockerUsername, imageName, kubeConfigId, dockerCredentialsId, buildNumber) ==
  Export_jenkinsfileParts[1] \o dockerUsername \o Export_jenkinsfileParts[2] \o imageName
  \o Export_jenkinsfileParts[3] \o ToString(buildNumber) \o Export_jenkinsfileParts[4]
  \o kubeConfigId \o Export_jenkinsfileParts[5] \o dockerCredentialsId
  \o Export_jenkinsfileParts[6]

Export_sampleJenkinsfile(cfgs, buildNumber) ==
  Export_jenkinsfileTemplate(
    Export_jenkinsVar(cfgs, "dockerUsername", "DOCKER_USERNAME"),
    Export_jenkinsVar(cfgs, "imageName", "go-microservice"),
    Export_jenkinsVar(cfgs, "kubeConfigId", "kubeconfig"),
    Export_jenkinsVar(cfgs, "dockerCredentialsId", "docker-credentials"),
    buildNumber)

Export_sampleDockerfile ==
  "FROM golang:1.18-alpine AS builder\n\n"
  \o "WORKDIR /app\n"
  \o "COPY go.mod go.sum ./\n"
  \o "RUN go mod download\n"
  \o "COPY . .\n"
  \o "RUN go build -o app\n\n"
  \o "FROM alpine:latest\n"
  \o "WORKDIR /app\n"
  \o "COPY --from=builder /app/app .\n"
  \o "COPY --from=builder /app/config ./config\n\n"
  \o "EXPOSE 8080\n"
  \o "CMD [\"./app\"]"

\* The template literal of the deployment.yaml sample: name is the metadata
\* name slot, app the four slots that share the other imageName fallback.
Export_deploymentParts ==
  << "apiVersion: apps/v1\n"
     \o "kind: Deployment\n"
     \o "metadata:\n"
     \o "  name: ",
     "\n"
     \o "spec:\n"
     \o "  replicas: 3\n"
     \o "  selector:\n"
     \o "    matchLabels:\n"
     \o "      app: ",
     "\n"
     \o "  template:\n"
     \o "    metadata:\n"
     \o "      labels:\n"
     \o "        app: ",
     "\n"
     \o "    spec:\n"
     \o "      containers:\n"
     \o "      - name: ",
     "\n"
     \o "        image: ",
     "/",
     ":",
     "\n"
     \o "        ports:\n"
     \o "        - containerPort: 8080" >>

Export_deploymentTemplate(name, app, dockerUsername, buildNumber) ==
  Export_deploymentParts[1] \o name \o Export_deploymentParts[2] \o app
  \o Export_deploymentParts[3] \o app \o Export_deploymentParts[4] \o app
  \o Export_deploymentParts[5] \o dockerUsername \o Export_deploymentParts[6] \o app
  \o Export_deploymentParts[7] \o ToString(buildNumber) \o Export_deploymentParts[8]

Export_sampleDeployment(cfgs, buildNumber) ==
  Export_deploymentTemplate(
    Export_jenkinsVar(cfgs, "imageName", "example-deployment"),
    Export_jenkinsVar(cfgs, "imageName", "example"),
    Export_jenkinsVar(cfgs, "dockerUsername", "username"),
    buildNumber)

\* name.split('.')[0]: the characters before the first dot
Export_baseName(name) ==
  IF Includes(name, ".") THEN SubSeq(name, 1, Min(Matches(name, ".")) - 1) ELSE name

\* String.prototype.toUpperCase on the letters a file name starts with.
UpperCase ==
  [a |-> "A", b |-> "B", c |-> "C", d |-> "D", e |-> "E", f |-> "F", g |-> "G",
   h |-> "H", i |-> "I", j |-> "J", k |-> "K", l |-> "L", m |-> "M", n |-> "N",
   o |-> "O", p |-> "P", q |-> "Q", r |-> "R", s |-> "S", t |-> "T", u |-> "U",
   v |-> "V", w |-> "W", x |-> "X", y |-> "Y", z |-> "Z"]

ToUpperCase(c) == IF c \in DOMAIN UpperCase THEN UpperCase[c] ELSE c

\* base.charAt(0).toUpperCase() + base.slice(1)
Export_capitalized(base) == ToUpperCase(SubSeq(base, 1, 1)) \o SubSeq(base, 2, Len(base))

Export_manifestParts ==
  << "apiVersion: apps/v1\n"
     \o "kind: ",
     "\n"
     \o "metadata:\n"
     \o "  name: example-",
     "\n"
     \o "spec:\n"
     \o "  # Sample configuration for ",
     "\n"
     \o "  selector:\n"
     \o "    app: example\n"
     \o "  ports:\n"
     \o "  - port: 80\n"
     \o "    targetPort: 8080" >>

Export_sampleManifest(name) ==
  Export_manifestParts[1] \o Export_capitalized(Export_baseName(name))
  \o Export_manifestParts[2] \o Export_baseName(name) \o Export_manifestParts[3] \o name
  \o Export_manifestParts[4]

Export_sampleOther(name) ==
  "# " \o name \o "\n\n"
  \o "This is a sample content for " \o name

generateSampleContent(cfgs, name, type, buildNumber) ==
  IF name = "Jenkinsfile"
  THEN IF Export_hasBuffer(cfgs, "jenkinsfile", "jenkinsfile")
       THEN cfgs["jenkinsfile"]["jenkinsfile"]
       ELSE Export_sampleJenkinsfile(cfgs, buildNumber)
  ELSE IF name = "Dockerfile"
  THEN IF Export_hasBuffer(cfgs, "dockerfile", "dockerfile")
       THEN cfgs["dockerfile"]["dockerfile"]
       ELSE Export_sampleDockerfile
  ELSE IF type = "manifest"
  THEN IF name = "deployment.yaml"
       THEN Export_sampleDeployment(cfgs, buildNumber)
       ELSE Export_sampleManifest(name)
  ELSE Export_sampleOther(name)

\* The files array without its contents: name and type, in order.
FileList ==
  << [name |-> "Jenkinsfile", type |-> "config"],
     [name |-> "Dockerfile", type |-> "config"],
     [name |-> "deployment.yaml", type |-> "manifest"],
     [name |-> "service.yaml", type |-> "manifest"],
     [name |-> "redis.yaml", type |-> "manifest"],
     [name |-> "configmap.yaml", type |-> "manifest"],
     [name |-> "prometheus.yaml", type |-> "manifest"],
     [name |-> "grafana.yaml", type |-> "manifest"],
     [name |-> "dashboard.json", type |-> "manifest"],
     [name |-> ".env.sample", type |-> "config"],
     [name |-> "README.md", type |-> "config"],
     [name |-> "DOCUMENTATION.md", type |-> "config"] >>

\* A files array that would list the Dockerfile first once it was applied.
Export_filesAppliedFirst(cfgs, bnJ, bnD) ==
  LET order == IF "dockerfile" \in DOMAIN cfgs
               THEN <<2, 1>> \o [i \in 1..(Len(FileList) - 2) |-> i + 2]
               ELSE [i \in 1..Len(FileList) |-> i]
  IN [ i \in 1..Len(FileList) |->
         [ name |-> FileList[order[i]].name,
           type |-> FileList[order[i]].type,
           content |-> generateSampleContent(cfgs, FileList[order[i]].name,
                         FileList[order[i]].type,
                         IF FileList[order[i]].name = "Jenkinsfile" THEN bnJ ELSE bnD) ] ]

\* generateSampleContent reads the store and the build number for three
\* names only.
Export_storeFiles == {"Jenkinsfile", "Dockerfile", "deployment.yaml"}

\* The contents of the other names, as any render generates them.
Export_fixedContent ==
  [ i \in 1..Len(FileList) |->
      generateSampleContent(EmptyObject, FileList[i].name, FileList[i].type, 1) ]

\* One render of ExportProject: the files array.  Every generateSampleContent
\* call draws its own build number; two of the twelve contents use theirs
\* (bnJ: Jenkinsfile, bnD: deployment.yaml).
Export_files(cfgs, bnJ, bnD) ==
  [ i \in 1..Len(FileList) |->
      [ name |-> FileList[i].name,
        type |-> FileList[i].type,
        content |-> IF FileList[i].name \in Export_storeFiles
                    THEN generateSampleContent(cfgs, FileList[i].name, FileList[i].type,
                           IF FileList[i].name = "Jenkinsfile" THEN bnJ ELSE bnD)
                    ELSE Export_fixedContent[i] ] ]

Export_mount(cfgs, bnJ, bnD) == [step |-> 7, files |-> Export_files(cfgs, bnJ, bnD)]

(***************************************************************************)
(* Mounting a step component (Index.tsx lines 36-44).                      *)
(***************************************************************************)
\* A mount after which the flag effect would not have run.
MountWithFlagClear(step, cfgs, bnJ, bnD) ==
  CASE step = 1 -> Repository_mount
    [] step = 2 -> [Jenkinsfile_mount(cfgs) EXCEPT !.hasUnsavedChanges = FALSE]
    [] step = 3 -> [Dockerfile_mount(cfgs) EXCEPT !.hasUnsavedChanges = FALSE]
    [] step = 4 -> [Kubernetes_mount(cfgs) EXCEPT !.hasUnsavedChanges = FALSE]
    [] step = 5 -> [DeploymentConfig_mount(cfgs) EXCEPT !.hasUnsavedChanges = FALSE]
    [] step = 6 -> [Monitoring_mount(cfgs) EXCEPT !.hasUnsavedChanges = FALSE]
    [] step = 7 -> Export_mount(cfgs, bnJ, bnD)
    [] OTHER -> [step |-> step]

Mount(step, cfgs, bnJ, bnD) ==
  CASE step = 1 -> Repository_mount
    [] step = 2 -> Jenkinsfile_mount(cfgs)
    [] step = 3 -> Dockerfile_mount(cfgs)
    [] step = 4 -> Kubernetes_mount(cfgs)
    [] step = 5 -> DeploymentConfig_mount(cfgs)
    [] step = 6 -> Monitoring_mount(cfgs)
    [] step = 7 -> Export_mount(cfgs, bnJ, bnD)
    [] OTHER -> [step |-> step]

Editor_currentConfig(l) ==
  CASE l.step = 2 -> Jenkinsfile_currentConfig(l)
    [] l.step = 3 -> Dockerfile_currentConfig(l)
    [] l.step = 4 -> Kubernetes_currentConfig(l)
    [] l.step = 5 -> DeploymentConfig_currentConfig(l)
    [] l.step = 6 -> Monitoring_currentConfig(l)

\* The text buffers a CodeEditor of the step shows (the Kubernetes PV and PVC
\* editors are rendered only when enablePersistence).
Editor_buffers(l) ==
  CASE l.step = 2 -> {"jenkinsfile"}
    [] l.step = 3 -> {"dockerfile"}
    [] l.step = 4 ->
         {"deploymentYaml", "serviceYaml", "redisYaml", "configMapYaml"} \cup
         (IF l.enablePersistence
          THEN {"persistentVolumeYaml", "persistentVolumeClaimYaml"} ELSE {})
    [] l.step = 5 -> {"envSampleFile", "readmeFile", "documentationFile"}
    [] l.step = 6 -> {"prometheusYaml", "grafanaYaml", "dashboardJson", "alertsYaml"}
    [] OTHER -> {}

\* Every buffer the step's component holds, shown or not.
Editor_allBuffers(step) ==
  CASE step = 2 -> {"jenkinsfile"}
    [] step = 3 -> {"dockerfile"}
    [] step = 4 ->
         {"deploymentYaml", "serviceYaml", "redisYaml", "configMapYaml",
          "persistentVolumeYaml", "persistentVolumeClaimYaml"}
    [] step = 5 -> {"envSampleFile", "readmeFile", "documentationFile"}
    [] step = 6 -> {"prometheusYaml", "grafanaYaml", "dashboardJson", "alertsYaml"}
    [] OTHER -> {}

(***************************************************************************)
(* Inputs the exploration types or selects.                                *)
(***************************************************************************)
TextValues == {"", "acme"}

\* A value with a $-pattern of String.prototype.replace, typed into a field
\* of the Jenkinsfile step.
DollarValues == {"$&"}

PortValues == {"", "9090"}

PathValues == {"", "/srv"}

ReplicaValues == {"", "3"}

DiskSizeValues == {"", "10"}

UserEdit == "\n# user edit"

\* What a user can turn a buffer into: nothing, or the buffer with a line added.
EditedTexts(cur) == {"", cur \o UserEdit} \ {cur}

Range(seq) == {seq[i] : i \in 1..Len(seq)}

(***************************************************************************)
(* Initial state: the page as loaded.                                      *)
(***************************************************************************)
Init ==
  /\ activeStep = 0
  /\ configs = EmptyObject
  /\ local = Mount(0, EmptyObject, 1, 1)
  /\ timers = << >>
  /\ nOps = 0
  /\ focus = 0
  /\ lastOp = [op |-> "init", calls |-> << >>]

(***************************************************************************)
(* Wizard shell actions.                                                   *)
(***************************************************************************)
\* The step that becomes active is mounted with the store of that render;
\* setting the step to its current value renders nothing anew.
Shell_setActiveStep(step, cfgs) ==
  /\ activeStep' = step
  /\ IF step = activeStep
     THEN local' = local
     ELSE IF step = 7
     THEN \E bnJ \in BuildNumbers, bnD \in BuildNumbers :
            local' = Mount(step, cfgs, bnJ, bnD)
     ELSE local' = Mount(step, cfgs, 1, 1)

\* Index.handleNextStep reached directly: Overview and Repository call the
\* prop from their button; Export and Settings receive the same prop.
Index_handleNextStep ==
  /\ activeStep \in {0, 1, 7, 8}
  /\ Shell_setActiveStep(goToNextStep(activeStep), configs)
  /\ lastOp' = [op |-> "next", calls |-> <<"goToNextStep">>,
                mounted |-> activeStep' # activeStep]
  /\ UNCHANGED <<configs, timers, nOps, focus>>

\* A navigation that would clear the pending export timers of the step left.
Sidebar_onClickClearingTimers ==
  \E step \in SidebarSteps :
    /\ Shell_setActiveStep(step, configs)
    /\ lastOp' = [op |-> "sidebar", calls |-> << >>, step |-> step,
                  mounted |-> step # activeStep,
                  fromLast |-> activeStep = LastStep]
    /\ timers' = IF step # activeStep THEN << >> ELSE timers
    /\ UNCHANGED <<configs, nOps, focus>>

\* Sidebar: onClick={() => setActiveStep(step.id)}
Sidebar_onClick ==
  \E step \in SidebarSteps :
    /\ Shell_setActiveStep(step, configs)
    /\ lastOp' = [op |-> "sidebar", calls |-> << >>, step |-> step,
                  mounted |-> step # activeStep,
                  fromLast |-> activeStep = LastStep]
    /\ UNCHANGED <<configs, timers, nOps, focus>>

(***************************************************************************)
(* Actions every editor step has.                                          *)
(***************************************************************************)
Counted(cost) ==
  /\ nOps + cost <= MaxOps
  /\ nOps' = nOps + cost

\* An edit that would also write a draft into the store.
EditedWritingStore(l2, buffer) ==
  /\ Counted(1)
  /\ focus \in {0, activeStep}
  /\ focus' = activeStep
  /\ local' = l2
  /\ lastOp' = [op |-> "edit", calls |-> << >>, buffer |-> buffer]
  /\ configs' = applyConfig(configs, "draft", [step |-> activeStep])
  /\ UNCHANGED <<activeStep, timers>>

\* An edit: one counted input of the focus step; it sets component state only.
\* buffer names the text buffer typed into, "" for a form field.
Edited(l2, buffer) ==
  /\ Counted(1)
  /\ focus \in {0, activeStep}
  /\ focus' = activeStep
  /\ local' = l2
  /\ lastOp' = [op |-> "edit", calls |-> << >>, buffer |-> buffer]
  /\ UNCHANGED <<activeStep, configs, timers>>

\* An editor whose tabs would share one text.
CodeEditor_setAllBuffers(l, f, text) ==
  [ g \in DOMAIN l |->
      IF g \in Editor_allBuffers(l.step) THEN text
      ELSE IF g = "hasUnsavedChanges" THEN TRUE ELSE l[g] ]

\* onCodeChange={setX}: the buffer is set to the text typed; the buffer is a
\* dependency of the flag effect in every editor.
CodeEditor_setBuffer(l, f, text) == [l EXCEPT ![f] = text, !.hasUnsavedChanges = TRUE]

\* CodeEditor: onChange={(e) => onCodeChange && onCodeChange(e.target.value)}
CodeEditor_onChange ==
  /\ activeStep \in EditorSteps
  /\ \E f \in Editor_buffers(local) :
       \E text \in EditedTexts(local[f]) :
         Edited(CodeEditor_setBuffer(local, f, text), f)

\* An apply that would leave the flag as it is.
Editor_handleApplyChangesKeepingFlag(l) == l

\* handleApplyChanges: applyConfig(stepId, currentConfig);
\* setHasUnsavedChanges(false)
Editor_handleApplyChanges(l) == [l EXCEPT !.hasUnsavedChanges = FALSE]

\* ApplyButton: disabled={!hasChanges}
ApplyButton_onClick ==
  /\ activeStep \in EditorSteps
  /\ local.hasUnsavedChanges
  /\ configs' = applyConfig(configs, StepId(activeStep), Editor_currentConfig(local))
  /\ local' = Editor_handleApplyChanges(local)
  /\ lastOp' = [op |-> "apply", calls |-> <<"applyConfig">>]
  /\ Counted(1)
  /\ UNCHANGED <<activeStep, timers, focus>>

\* A Next that would never apply.
Editor_nextConfigsWithoutApply(l, cfgs) == cfgs

\* The store handleNextStep leaves: if (hasUnsavedChanges) handleApplyChanges()
Editor_nextConfigs(l, cfgs) ==
  IF l.hasUnsavedChanges
  THEN applyConfig(cfgs, StepId(l.step), Editor_currentConfig(l))
  ELSE cfgs

\* handleNextStep: if (hasUnsavedChanges) handleApplyChanges(); goToNextStep()
Editor_handleNextStep ==
  /\ activeStep \in EditorSteps
  /\ configs' = Editor_nextConfigs(local, configs)
  /\ Shell_setActiveStep(goToNextStep(activeStep), configs')
  /\ lastOp' = [op |-> "next",
                calls |-> IF local.hasUnsavedChanges
                          THEN <<"applyConfig", "goToNextStep">>
                          ELSE <<"goToNextStep">>,
                mounted |-> activeStep' # activeStep]
  /\ IF local.hasUnsavedChanges THEN Counted(1) ELSE nOps' = nOps
  /\ UNCHANGED <<timers, focus>>

(***************************************************************************)
(* Field edits of each step.  An input or select fires its handler only    *)
(* with a value other than the one it shows.                               *)
(***************************************************************************)
Repository_onChange ==
  /\ activeStep = 1
  /\ \E name \in DOMAIN local.repoConfig, value \in TextValues :
       /\ value # local.repoConfig[name]
       /\ Edited(Repository_handleChange(local, name, value), "")

Jenkinsfile_onChange ==
  /\ activeStep = 2
  /\ \E name \in DOMAIN Jenkinsfile_defaultVars :
       \E value \in TextValues \cup DollarValues :
         /\ value # local.vars[name]
         /\ Edited(Jenkinsfile_handleVarChange(local, name, value), "")

Dockerfile_goVersions == {"1.18-alpine", "1.19-alpine", "1.20-alpine", "1.21-alpine"}

Dockerfile_baseImages ==
  {"alpine:3.16", "alpine:3.17", "alpine:3.18", "distroless/static:nonroot"}

Dockerfile_values(name) ==
  CASE name = "goVersion" -> Dockerfile_goVersions
    [] name = "baseImage" -> Dockerfile_baseImages
    [] name = "port" -> PortValues
    [] name = "mainPath" -> PathValues

Dockerfile_onChange ==
  /\ activeStep = 3
  /\ \E name \in DOMAIN Dockerfile_defaultVars :
       \E value \in Dockerfile_values(name) :
         /\ value # local.vars[name]
         /\ Edited(Dockerfile_handleVarChange(local, name, value), "")

Kubernetes_serviceTypes == {"ClusterIP", "NodePort", "LoadBalancer"}

Kubernetes_redisVersions == {"6.2-alpine", "7.0-alpine", "6.2", "7.0"}

Kubernetes_values(name) ==
  CASE name = "serviceType" -> Kubernetes_serviceTypes
    [] name = "redisVersion" -> Kubernetes_redisVersions
    [] name = "replicas" -> ReplicaValues
    [] OTHER -> TextValues

Kubernetes_onVarChange ==
  /\ activeStep = 4
  /\ \E name \in DOMAIN Kubernetes_defaultVars :
       \E value \in Kubernetes_values(name) :
         /\ value # local.vars[name]
         /\ Edited(Kubernetes_handleVarChange(local, name, value), "")

Kubernetes_onPersistenceToggle ==
  /\ activeStep = 4
  /\ Edited(Kubernetes_handlePersistenceToggle(local, ~local.enablePersistence), "")

\* The controls below are rendered only when enablePersistence.
Kubernetes_onCloudProviderChange ==
  /\ activeStep = 4
  /\ local.enablePersistence
  /\ \E value \in CloudProviders \ {local.cloudProvider} :
       Edited(Kubernetes_handleCloudProviderChange(local, value), "")

Kubernetes_onStorageClassChange ==
  /\ activeStep = 4
  /\ local.enablePersistence
  /\ \E value \in Range(storageClasses(local.cloudProvider)) \ {local.storageClass} :
       Edited(Kubernetes_handleStorageClassChange(local, value), "")

Kubernetes_onDiskSizeChange ==
  /\ activeStep = 4
  /\ local.enablePersistence
  /\ \E value \in DiskSizeValues \ {local.diskSize} :
       Edited(Kubernetes_handleDiskSizeChange(local, value), "")

Kubernetes_onVolumePathChange ==
  /\ activeStep = 4
  /\ local.enablePersistence
  /\ local.cloudProvider = "onprem"
  /\ \E value \in PathValues \ {local.volumePath} :
       Edited(Kubernetes_handleVolumePathChange(local, value), "")

\* The inputs of DeploymentConfig: a text input or a switch per key; the
\* Slack channel and e-mail recipients inputs are rendered only when their
\* switch is on.
DeploymentConfig_values(l, key) ==
  CASE key \in {"enableSlackNotifications", "enableEmailNotifications",
                "includeGithubWorkflows"} -> BOOLEAN
    [] key = "slackChannel" ->
         IF l.settings.enableSlackNotifications THEN TextValues ELSE {}
    [] key = "emailRecipients" ->
         IF l.settings.enableEmailNotifications THEN TextValues ELSE {}
    [] OTHER -> TextValues

DeploymentConfig_onChange ==
  /\ activeStep = 5
  /\ \E key \in DOMAIN DeploymentConfig_defaultSettings :
       \E value \in DeploymentConfig_values(local, key) :
         /\ value # local.settings[key]
         /\ Edited(DeploymentConfig_handleSettingsChange(local, key, value), "")

Monitoring_storageClasses == {"standard", "premium", "fast", "ssd"}

Monitoring_prometheusSizes == {"5Gi", "10Gi", "20Gi", "50Gi"}

Monitoring_grafanaSizes == {"1Gi", "2Gi", "5Gi", "10Gi"}

\* The inputs of MonitoringSetup and when each is rendered.
Monitoring_values(l, key) ==
  CASE key \in {"enablePrometheus", "enableGrafana", "enableAlertManager",
                "persistStorage"} -> BOOLEAN
    [] key = "prometheusVersion" ->
         IF l.settings.enablePrometheus
         THEN {"v2.33.0", "v2.34.0", "v2.35.0", "v2.36.0"} ELSE {}
    [] key = "grafanaVersion" ->
         IF l.settings.enableGrafana THEN {"8.5.0", "9.0.0", "9.1.0", "9.2.0"} ELSE {}
    [] key = "grafanaAdminPassword" ->
         IF l.settings.enableGrafana THEN TextValues ELSE {}
    [] key = "namespace" -> TextValues
    [] key = "storageClass" ->
         IF l.settings.persistStorage THEN Monitoring_storageClasses ELSE {}
    [] key = "storagePath" ->
         IF l.settings.persistStorage THEN PathValues ELSE {}
    [] key = "prometheusStorageSize" ->
         IF l.settings.persistStorage THEN Monitoring_prometheusSizes ELSE {}
    [] key = "grafanaStorageSize" ->
         IF l.settings.persistStorage THEN Monitoring_grafanaSizes ELSE {}
    [] OTHER -> {}

Monitoring_onChange ==
  /\ activeStep = 6
  /\ \E key \in DOMAIN Monitoring_defaultSettings :
       \E value \in Monitoring_values(local, key) :
         /\ value # local.settings[key]
         /\ Edited(Monitoring_handleSettingsChange(local, key, value), "")

(***************************************************************************)
(* Export actions (ExportProject.tsx lines 187-233).                       *)
(***************************************************************************)
\* downloadFile(file): the browser saves file.content under file.name.
Export_downloadFile(file) ==
  [op |-> "download", calls |-> << >>, name |-> file.name, content |-> file.content]

\* A toast may render the mounted export step again; a render builds the
\* files array anew, with new build numbers and the store of that render.
Export_render ==
  IF activeStep = 7
  THEN \E bnJ \in BuildNumbers, bnD \in BuildNumbers :
         local' = Export_mount(configs, bnJ, bnD)
  ELSE local' = local

\* handleSingleExport(file): toast; downloadFile(file)
Export_handleSingleExport ==
  /\ activeStep = 7
  /\ Export_render
  /\ \E i \in 1..Len(local.files) : lastOp' = Export_downloadFile(local.files[i])
  /\ Counted(1)
  /\ UNCHANGED <<activeStep, configs, timers, focus>>

\* handleExport: toast; setTimeout(..., 1000) over the files of this render.
\* A run is at pos 0 until the outer timer fires, at pos i (1..12) when file
\* i is the next to download, at pos 13 when only the closing toast is left.
Export_handleExport ==
  /\ activeStep = 7
  /\ Counted(2)
  /\ focus \in {0, activeStep}
  /\ focus' = activeStep
  /\ timers' = Append(timers, [files |-> local.files, pos |-> 0])
  /\ lastOp' = [op |-> "export", calls |-> << >>]
  /\ Export_render
  /\ UNCHANGED <<activeStep, configs>>

\* Timers of one run fire in the order of their delays; a run started later
\* has every timer due later than the same timer of an earlier run.
Export_timerDue(k) ==
  /\ k \in 1..Len(timers)
  /\ k > 1 => timers[k - 1].pos > timers[k].pos

\* The outer timer: schedules the twelve downloads and the closing toast.
Export_outerTimer ==
  \E k \in 1..Len(timers) :
    /\ Export_timerDue(k)
    /\ timers[k].pos = 0
    /\ timers' = [timers EXCEPT ![k].pos = 1]
    /\ lastOp' = [op |-> "timer", calls |-> << >>]
    /\ UNCHANGED <<activeStep, configs, local, nOps, focus>>

\* A download timer that would take the file from the store as it is when
\* the timer fires.
Export_downloadTimerFromStore ==
  \E k \in 1..Len(timers) :
    /\ Export_timerDue(k)
    /\ timers[k].pos \in 1..Len(timers[k].files)
    /\ \E bnJ \in BuildNumbers, bnD \in BuildNumbers :
         lastOp' = Export_downloadFile(Export_files(configs, bnJ, bnD)[timers[k].pos])
    /\ timers' = [timers EXCEPT ![k].pos = @ + 1]
    /\ Export_render
    /\ UNCHANGED <<activeStep, configs, nOps, focus>>

\* setTimeout(() => downloadFile(file), index * 300)
Export_downloadTimer ==
  \E k \in 1..Len(timers) :
    /\ Export_timerDue(k)
    /\ timers[k].pos \in 1..Len(timers[k].files)
    /\ lastOp' = Export_downloadFile(timers[k].files[timers[k].pos])
    /\ timers' = [timers EXCEPT ![k].pos = @ + 1]
    /\ Export_render
    /\ UNCHANGED <<activeStep, configs, nOps, focus>>

\* The closing toast, files.length * 300 + 500 ms after the outer timer: the
\* run has no timer left.
Export_completeTimer ==
  \E k \in 1..Len(timers) :
    /\ Export_timerDue(k)
    /\ timers[k].pos = Len(timers[k].files) + 1
    /\ timers' = SubSeq(timers, 1, k - 1) \o SubSeq(timers, k + 1, Len(timers))
    /\ lastOp' = [op |-> "complete", calls |-> << >>]
    /\ Export_render
    /\ UNCHANGED <<activeStep, configs, nOps, focus>>

(***************************************************************************)
(* The wizard.                                                             *)
(***************************************************************************)
Next ==
  \/ Index_handleNextStep
  \/ Sidebar_onClick
  \/ CodeEditor_onChange
  \/ ApplyButton_onClick
  \/ Editor_handleNextStep
  \/ Repository_onChange
  \/ Jenkinsfile_onChange
  \/ Dockerfile_onChange
  \/ Kubernetes_onVarChange
  \/ Kubernetes_onPersistenceToggle
  \/ Kubernetes_onCloudProviderChange
  \/ Kubernetes_onStorageClassChange
  \/ Kubernetes_onDiskSizeChange
  \/ Kubernetes_onVolumePathChange
  \/ DeploymentConfig_onChange
  \/ Monitoring_onChange
  \/ Export_handleSingleExport
  \/ Export_handleExport
  \/ Export_outerTimer
  \/ Export_downloadTimer
  \/ Export_completeTimer

Spec == Init /\ [][Next]_vars

\* A timer that is set fires: setTimeout has no clearTimeout in the code, and
\* the callbacks hold no reference to the component.
SpecLive ==
  /\ Spec
  /\ WF_vars(Export_outerTimer)
  /\ WF_vars(Export_downloadTimer)
  /\ WF_vars(Export_completeTimer)

(***************************************************************************)
(* Export All pressed again while a run is pending, with applies of the     *)
(* Jenkinsfile step in between and no edits: the runs overlap.              *)
(***************************************************************************)
\* The sidebar entries clicked here: Jenkinsfile and Export Project.
ExportSidebarSteps == {2, 7}

\* Sidebar: onClick={() => setActiveStep(step.id)}
Sidebar_onClickExportSteps ==
  \E step \in ExportSidebarSteps :
    /\ Shell_setActiveStep(step, configs)
    /\ lastOp' = [op |-> "sidebar", calls |-> << >>, step |-> step,
                  mounted |-> step # activeStep,
                  fromLast |-> activeStep = LastStep]
    /\ UNCHANGED <<configs, timers, nOps, focus>>

\* handleExport, counted as one input and invoked while at most one run is
\* pending: the run added has the files of the render it was invoked in.
Export_handleExportOverlapping ==
  /\ activeStep = 7
  /\ Len(timers) <= 1
  /\ Counted(1)
  /\ timers' = Append(timers, [files |-> local.files, pos |-> 0])
  /\ lastOp' = [op |-> "export", calls |-> << >>]
  /\ Export_render
  /\ UNCHANGED <<activeStep, configs, focus>>

NextExport ==
  \/ Sidebar_onClickExportSteps
  \/ ApplyButton_onClick
  \/ Export_handleExportOverlapping
  \/ Export_outerTimer
  \/ Export_downloadTimer
  \/ Export_completeTimer

SpecExport == Init /\ [][NextExport]_vars

(***************************************************************************)
(* The store alone, under arbitrary callers: any step id, any object.      *)
(***************************************************************************)
StoreIds == {"jenkinsfile", "dockerfile", "anyStep", "toString"}

StoreObjects == { [x |-> "1"], [y |-> "2"], [x |-> "2", y |-> "1"], EmptyObject }

InitStore ==
  /\ activeStep = 0
  /\ configs = EmptyObject
  /\ local = Mount(0, EmptyObject, 1, 1)
  /\ timers = << >>
  /\ nOps = 0
  /\ focus = 0
  /\ lastOp = [op |-> "init", calls |-> << >>]

Store_applyConfig ==
  \E stepId \in StoreIds, config \in StoreObjects :
    /\ configs' = applyConfig(configs, stepId, config)
    /\ lastOp' = [op |-> "applyConfig", calls |-> << >>,
                  stepId |-> stepId, config |-> config]
    /\ Counted(1)
    /\ UNCHANGED <<activeStep, local, timers, focus>>

Store_getConfig ==
  \E stepId \in StoreIds :
    /\ lastOp' = [op |-> "getConfig", calls |-> << >>,
                  stepId |-> stepId, result |-> getConfig(configs, stepId)]
    /\ UNCHANGED <<activeStep, configs, local, timers, nOps, focus>>

NextStore == Store_applyConfig \/ Store_getConfig

SpecStore == InitStore /\ [][NextStore]_vars

(***************************************************************************)
(* Properties.                                                             *)
(***************************************************************************)
\* What a step component holds apart from its identity and the flag: its
\* settings and every text buffer.
Snapshot(l) == [f \in DOMAIN l \ {"step", "hasUnsavedChanges"} |-> l[f]]

AppliedSteps == {step \in EditorSteps : StepId(step) \in DOMAIN configs}

\* C1: after applyConfig(id, c) a read of id returns exactly c, whatever the
\* store held for id before (no merge with the previous entry); the entries of
\* the other ids are as they were, and a read changes nothing, so c is read
\* until the next write to id.
C1_SetThenGet ==
  [][ /\ lastOp'.op = "applyConfig" =>
           /\ getConfig(configs', lastOp'.stepId) = lastOp'.config
           /\ \A id \in StoreIds \ {lastOp'.stepId} :
                getConfig(configs', id) = getConfig(configs, id)
      /\ lastOp'.op = "getConfig" =>
           /\ configs' = configs
           /\ lastOp'.result = getConfig(configs, lastOp'.stepId) ]_vars

\* An id written more than once (more writes than ids written), last with an
\* object that lacks a field of the other objects.
C1_Witness ==
  /\ lastOp.op = "applyConfig"
  /\ Cardinality(DOMAIN configs) < nOps
  /\ lastOp.config = [y |-> "2"]
  /\ configs[lastOp.stepId] = [y |-> "2"]

\* C2: a read of an id that was never written returns the empty object.
C2_GetUnwritten ==
  (lastOp.op = "getConfig" /\ lastOp.stepId \notin DOMAIN configs)
    => lastOp.result = EmptyObject

C2_Witness ==
  /\ lastOp.op = "getConfig"
  /\ lastOp.stepId \notin DOMAIN configs
  /\ configs # EmptyObject
  /\ lastOp.result = EmptyObject

\* C3: the store starts empty, and a step that changes it is an Apply click
\* or a Next of an editor whose flag is set, which writes the entry of that
\* editor; every other step (field edit, buffer edit, sidebar click, mount and
\* unmount, single export, Export All and its timers) leaves it as it is.
C3_StoreFrame ==
  /\ configs = EmptyObject
  /\ [][ configs' # configs =>
           /\ activeStep \in EditorSteps
           /\ local.hasUnsavedChanges
           /\ lastOp'.op \in {"apply", "next"}
           /\ \A id \in DOMAIN configs : id # StepId(activeStep) =>
                (id \in DOMAIN configs' /\ configs'[id] = configs[id])
           /\ DOMAIN configs' = DOMAIN configs \cup {StepId(activeStep)} ]_vars

\* An Export All run has ended while the store held an applied entry.
C3_Witness ==
  /\ lastOp.op = "complete"
  /\ configs # EmptyObject

\* C4: Next of an editor with the flag set calls applyConfig once, with the
\* editor's current values, and then goToNextStep; with the flag clear it
\* calls goToNextStep alone and the store is unchanged.
C4_NextApplies ==
  [][ (activeStep \in EditorSteps /\ lastOp'.op = "next") =>
        /\ activeStep' = goToNextStep(activeStep)
        /\ IF local.hasUnsavedChanges
           THEN /\ lastOp'.calls = <<"applyConfig", "goToNextStep">>
                /\ StepId(activeStep) \in DOMAIN configs'
                /\ configs'[StepId(activeStep)] = Snapshot(local)
           ELSE /\ lastOp'.calls = <<"goToNextStep">>
                /\ configs' = configs ]_vars

\* Next pressed with the flag clear, after an edit and an Apply.
C4_Witness ==
  /\ lastOp.op = "next"
  /\ lastOp.calls = <<"goToNextStep">>
  /\ activeStep = 5
  /\ "kubernetes" \in DOMAIN configs
  /\ configs["kubernetes"] # Snapshot(Kubernetes_mount(EmptyObject))

\* C5: Apply leaves the flag clear; an edit leaves it set; a set flag stays
\* set while the editor stays mounted, until an Apply.
C5_FlagLifecycle ==
  [][ /\ lastOp'.op = "apply" => ~local'.hasUnsavedChanges
      /\ (lastOp'.op = "edit" /\ activeStep' \in EditorSteps) =>
           local'.hasUnsavedChanges
      /\ ( /\ activeStep \in EditorSteps
           /\ activeStep' = activeStep
           /\ local.hasUnsavedChanges
           /\ lastOp'.op # "apply" ) => local'.hasUnsavedChanges ]_vars

\* An edit made after an Apply of this editor in a behaviour that edited,
\* applied and edited: the flag is set again.
C5_Witness ==
  /\ lastOp.op = "edit"
  /\ nOps = 3
  /\ activeStep \in AppliedSteps
  /\ configs[StepId(activeStep)] # Snapshot(Mount(activeStep, EmptyObject, 1, 1))
  /\ configs[StepId(activeStep)] # Snapshot(local)
  /\ local.hasUnsavedChanges

\* C6: after an apply (Apply, or Next with the flag set) the entry of the
\* editor is exactly the editor's settings and all its buffers as they were
\* when the handler ran, the edit made just before included.
C6_ApplySnapshot ==
  [][ (lastOp'.op \in {"apply", "next"} /\ "applyConfig" \in Range(lastOp'.calls)) =>
        /\ StepId(activeStep) \in DOMAIN configs'
        /\ configs'[StepId(activeStep)] = Snapshot(local)
        /\ Editor_allBuffers(activeStep) \subseteq DOMAIN configs'[StepId(activeStep)] ]_vars

\* Monitoring applied right after two edits, one of them to a text buffer.
C6_Witness ==
  /\ lastOp.op = "apply"
  /\ activeStep = 6
  /\ nOps = 3
  /\ configs["monitoringSetup"] = Snapshot(local)
  /\ configs["monitoringSetup"].settings # Monitoring_defaultSettings
  /\ configs["monitoringSetup"].alertsYaml # defaultAlertsYaml

\* C7: an editor that is mounted while the store holds an entry for it shows
\* exactly that entry: every setting and every buffer equals the value last
\* applied, an emptied buffer and a cleared field included.
C7_RoundTrip ==
  ( /\ lastOp.op \in {"sidebar", "next"}
    /\ lastOp.mounted
    /\ activeStep \in AppliedSteps )
    => Snapshot(local) = configs[StepId(activeStep)]

\* The store entry and field the spec names as the source of each exported
\* file.
FileDomain(name) ==
  CASE name = "Jenkinsfile" -> <<"jenkinsfile", "jenkinsfile">>
    [] name = "Dockerfile" -> <<"dockerfile", "dockerfile">>
    [] name = "deployment.yaml" -> <<"kubernetes", "deploymentYaml">>
    [] name = "service.yaml" -> <<"kubernetes", "serviceYaml">>
    [] name = "redis.yaml" -> <<"kubernetes", "redisYaml">>
    [] name = "configmap.yaml" -> <<"kubernetes", "configMapYaml">>
    [] name = "prometheus.yaml" -> <<"monitoringSetup", "prometheusYaml">>
    [] name = "grafana.yaml" -> <<"monitoringSetup", "grafanaYaml">>
    [] name = "dashboard.json" -> <<"monitoringSetup", "dashboardJson">>
    [] name = ".env.sample" -> <<"deploymentConfig", "envSampleFile">>
    [] name = "README.md" -> <<"deploymentConfig", "readmeFile">>
    [] name = "DOCUMENTATION.md" -> <<"deploymentConfig", "documentationFile">>

\* C8: in the export step, the content of every file whose domain has an
\* entry in the store is the buffer that entry holds for the file.
C8_ExportStored ==
  activeStep = 7 =>
    \A i \in 1..Len(local.files) :
      LET d == FileDomain(local.files[i].name) IN
        d[1] \in DOMAIN configs => local.files[i].content = configs[d[1]][d[2]]

\* The value the store offers for a pipeline variable, or the placeholder.
StoreValue(field, placeholder) ==
  IF /\ "jenkinsfile" \in DOMAIN configs
     /\ configs["jenkinsfile"].vars[field] # ""
  THEN configs["jenkinsfile"].vars[field]
  ELSE placeholder

\* C9: in the export step, a file whose domain has no entry in the store has
\* its built-in sample as content: the Jenkinsfile and Dockerfile samples, the
\* deployment.yaml sample with the store's imageName and dockerUsername where
\* the store has them and the placeholders where not, the generic manifest
\* and the generic text for the others, with a build number of the render.
C9_ExportFallback ==
  activeStep = 7 =>
    \A i \in 1..Len(local.files) :
      LET name == local.files[i].name
          content == local.files[i].content
      IN  FileDomain(name)[1] \notin DOMAIN configs =>
            CASE name = "Jenkinsfile" ->
                   \E bn \in BuildNumbers :
                     content = Export_jenkinsfileTemplate("DOCKER_USERNAME",
                                 "go-microservice", "kubeconfig",
                                 "docker-credentials", bn)
              [] name = "Dockerfile" -> content = Export_sampleDockerfile
              [] name = "deployment.yaml" ->
                   \E bn \in BuildNumbers :
                     content = Export_deploymentTemplate(
                                 StoreValue("imageName", "example-deployment"),
                                 StoreValue("imageName", "example"),
                                 StoreValue("dockerUsername", "username"), bn)
              [] local.files[i].type = "manifest" /\ name # "deployment.yaml" ->
                   content = Export_sampleManifest(name)
              [] OTHER -> content = Export_sampleOther(name)

\* The export step shown when the pipeline step was applied with an image
\* name typed in and the cluster step never was: deployment.yaml is the
\* sample, with that image name in it.
C9_Witness ==
  /\ activeStep = 7
  /\ "kubernetes" \notin DOMAIN configs
  /\ "jenkinsfile" \in DOMAIN configs
  /\ configs["jenkinsfile"].vars.imageName = "acme"
  /\ Count(local.files[3].content, "acme") = 5
  /\ Count(local.files[3].content, "username") = 1

\* C10: the active step is always one of 0..8; Next moves from i < 8 to
\* i + 1 and from 8 to 8; a sidebar click on j moves to j; nothing else
\* moves.
C10_StepRange ==
  /\ [](activeStep \in 0..8)
  /\ [][ /\ lastOp'.op = "next" =>
              activeStep' = IF activeStep < 8 THEN activeStep + 1 ELSE 8
         /\ lastOp'.op = "sidebar" =>
              (lastOp'.step \in 0..8 /\ activeStep' = lastOp'.step)
         /\ lastOp'.op \notin {"next", "sidebar"} => activeStep' = activeStep ]_vars

\* Next has run at step 8 and the step is still 8.
C10_Witness ==
  /\ activeStep = 8
  /\ lastOp.op = "next"
  /\ ~lastOp.mounted

\* C11 as stated: once the active step is 8 no transition changes it.
C11_Terminal == [][activeStep = 8 => activeStep' = 8]_vars

\* C11, amended: at step 8 Next leaves the active step at 8, and the only
\* transition that changes the active step from 8 is a sidebar click, which
\* moves to the step clicked.
C11_TerminalForNext ==
  [][ activeStep = 8 =>
        /\ lastOp'.op = "next" => activeStep' = 8
        /\ activeStep' # 8 =>
             (lastOp'.op = "sidebar" /\ activeStep' = lastOp'.step) ]_vars

\* The settings step left by a sidebar click on the export step.
C11_Witness ==
  /\ lastOp.op = "sidebar"
  /\ lastOp.fromLast
  /\ activeStep = 7

\* The names of a files array, in order.
Names(files) == [i \in 1..Len(files) |-> files[i].name]

\* C12: every files array (of the export step shown and of every Export All
\* run) has the twelve names of the list in the list's order, whatever the
\* store holds; a download made by a timer of a run is the download of the
\* file the run is at, and moves the run to the next file, so file i of a run
\* is never requested before file i - 1.
C12_ExportOrder ==
  /\ [](/\ activeStep = 7 => Names(local.files) = Names(FileList)
        /\ \A k \in 1..Len(timers) :
             /\ Names(timers[k].files) = Names(FileList)
             /\ timers[k].pos \in 0..13)
  /\ [][ (lastOp'.op = "download" /\ timers' # timers) =>
          \E k \in 1..Len(timers) :
            /\ timers[k].pos \in 1..12
            /\ timers' = [timers EXCEPT ![k].pos = timers[k].pos + 1]
            /\ lastOp'.name = FileList[timers[k].pos].name
            /\ lastOp'.content = timers[k].files[timers[k].pos].content ]_vars

\* The last file of a run downloaded, Jenkinsfile having been the first,
\* while the store holds an applied Dockerfile entry.
C12_Witness ==
  /\ lastOp.op = "download"
  /\ lastOp.name = "DOCUMENTATION.md"
  /\ Len(timers) = 1
  /\ timers[1].pos = 13
  /\ timers[1].files[1].name = "Jenkinsfile"
  /\ "dockerfile" \in DOMAIN configs

\* timers without its k-th run.
WithoutRun(k) == SubSeq(timers, 1, k - 1) \o SubSeq(timers, k + 1, Len(timers))

\* C13: an Export All click starts a run over the files of that render; from
\* then on the run changes only by its own timers, whatever the user does
\* (navigation included): the outer timer, then one download per file, each
\* moving the run one file on, and the closing notification, which comes only
\* when the run is past its twelfth file.  Every run started comes to its
\* closing notification.
C13_NoCancel ==
  /\ [][ /\ lastOp'.op = "export" =>
             timers' = Append(timers, [files |-> local.files, pos |-> 0])
         /\ timers' # timers =>
             \/ lastOp'.op = "export"
             \/ \E k \in 1..Len(timers) :
                  \/ /\ lastOp'.op = "timer"
                     /\ timers[k].pos = 0
                     /\ timers' = [timers EXCEPT ![k].pos = 1]
                  \/ /\ lastOp'.op = "download"
                     /\ timers[k].pos \in 1..12
                     /\ lastOp'.name = timers[k].files[timers[k].pos].name
                     /\ timers' = [timers EXCEPT ![k].pos = timers[k].pos + 1]
                  \/ /\ lastOp'.op = "complete"
                     /\ timers[k].pos = 13
                     /\ timers' = WithoutRun(k)
         /\ lastOp'.op = "complete" => timers' # timers ]_vars
  /\ (timers # << >>) ~> (lastOp.op = "complete")

\* A run that came to its closing notification after the user had left the
\* export step.
C13_Witness ==
  /\ lastOp.op = "complete"
  /\ activeStep = 0
  /\ timers = << >>

\* C14: the content the export step offers for a file is determined by the
\* store and the file: it is what generateSampleContent yields for that store
\* whatever number the render drew, so two renders over the same store offer
\* the same content.
C14_Deterministic ==
  activeStep = 7 =>
    \A i \in 1..Len(local.files) : \A bn \in BuildNumbers :
      local.files[i].content =
        generateSampleContent(configs, local.files[i].name, local.files[i].type, bn)

\* Texts a buffer could hold instead of the one it holds.
AltTexts == {"", UserEdit}

\* The editor state l with every buffer holding alt.
WithBuffers(l, alt) ==
  [f \in DOMAIN l |-> IF f \in Editor_allBuffers(l.step) THEN alt ELSE l[f]]

\* Handler H, which took the editor from l to l2, takes every state that
\* differs from l only in the buffers' text to the same text in each of the
\* buffers it sets (produced).
FromTemplate(l, l2, produced, H(_)) ==
  \A alt \in AltTexts :
    LET r == H(WithBuffers(l, alt)) IN \A f \in produced : r[f] = l2[f]

\* The field of record old that has another value in record new.
Changed(old, new) == CHOOSE k \in DOMAIN old : new[k] # old[k]

PersistenceBuffers == {"persistentVolumeYaml", "persistentVolumeClaimYaml"}

C15_Jenkinsfile ==
  (activeStep = 2 /\ lastOp'.op = "edit" /\ local'.vars # local.vars) =>
    LET name == Changed(local.vars, local'.vars) IN
      FromTemplate(local, local', {"jenkinsfile"},
        LAMBDA l : Jenkinsfile_handleVarChange(l, name, local'.vars[name]))

C15_Dockerfile ==
  (activeStep = 3 /\ lastOp'.op = "edit" /\ local'.vars # local.vars) =>
    LET name == Changed(local.vars, local'.vars) IN
      FromTemplate(local, local', {"dockerfile"},
        LAMBDA l : Dockerfile_handleVarChange(l, name, local'.vars[name]))

C15_KubernetesVars ==
  (activeStep = 4 /\ lastOp'.op = "edit") =>
    /\ local'.vars # local.vars =>
         LET name == Changed(local.vars, local'.vars) IN
           FromTemplate(local, local', Editor_allBuffers(4),
             LAMBDA l : Kubernetes_handleVarChange(l, name, local'.vars[name]))
    /\ local'.cloudProvider # local.cloudProvider =>
         FromTemplate(local, local', PersistenceBuffers,
           LAMBDA l : Kubernetes_handleCloudProviderChange(l, local'.cloudProvider))
    /\ ( /\ local'.cloudProvider = local.cloudProvider
         /\ local'.storageClass # local.storageClass ) =>
         FromTemplate(local, local', PersistenceBuffers,
           LAMBDA l : Kubernetes_handleStorageClassChange(l, local'.storageClass))

C15_KubernetesSizeAndPath ==
  (activeStep = 4 /\ lastOp'.op = "edit") =>
    /\ local'.diskSize # local.diskSize =>
         FromTemplate(local, local', PersistenceBuffers,
           LAMBDA l : Kubernetes_handleDiskSizeChange(l, local'.diskSize))
    /\ local'.volumePath # local.volumePath =>
         FromTemplate(local, local', {"persistentVolumeYaml"},
           LAMBDA l : Kubernetes_handleVolumePathChange(l, local'.volumePath))

\* The buffers each Monitoring rule sets.
MonitoringProduced(key) ==
  CASE key = "prometheusVersion" -> {"prometheusYaml"}
    [] key \in {"grafanaVersion", "grafanaAdminPassword"} -> {"grafanaYaml"}
    [] key \in {"namespace", "persistStorage"} -> {"prometheusYaml", "grafanaYaml"}
    [] OTHER -> {}

C15_Monitoring ==
  (activeStep = 6 /\ lastOp'.op = "edit" /\ local'.settings # local.settings) =>
    LET key == Changed(local.settings, local'.settings) IN
      FromTemplate(local, local', MonitoringProduced(key),
        LAMBDA l : Monitoring_handleSettingsChange(l, key, local'.settings[key]))

\* C15 as stated: in the Jenkinsfile, Dockerfile, Kubernetes and Monitoring
\* editors the buffers a settings change leaves do not depend on the text the
\* buffers held.
C15_AllFromTemplate ==
  [][ /\ C15_Jenkinsfile
      /\ C15_Dockerfile
      /\ C15_KubernetesVars
      /\ C15_KubernetesSizeAndPath
      /\ C15_Monitoring ]_vars

\* C15, amended: in the Jenkinsfile and Dockerfile editors, and in the
\* Kubernetes editor for a change of a variable field, of the cloud provider
\* or of the storage class, the buffers the change leaves do not depend on
\* the text the buffers held.
C15_SomeFromTemplate ==
  [][ /\ C15_Jenkinsfile
      /\ C15_Dockerfile
      /\ C15_KubernetesVars ]_vars

\* The image name changed in a Jenkinsfile editor that was mounted with an
\* applied buffer holding a user's line: the buffer is the template with the
\* image name, without that line.
C15_Witness ==
  /\ activeStep = 2
  /\ lastOp.op = "edit"
  /\ "jenkinsfile" \in DOMAIN configs
  /\ Includes(configs["jenkinsfile"].jenkinsfile, UserEdit)
  /\ configs["jenkinsfile"].vars = Jenkinsfile_defaultVars
  /\ local.vars.imageName = "acme"
  /\ local.jenkinsfile = Jenkinsfile_updated("imageName", "acme")
  /\ ~Includes(local.jenkinsfile, UserEdit)

\* The characters of text from position i on, n of them at most.
Slice(text, i, n) ==
  SubSeq(text, i, IF i + n - 1 <= Len(text) THEN i + n - 1 ELSE Len(text))

\* new is old with every version that follows head replaced by v (the
\* versions of a select have one length), and nothing else changed; if old
\* is the default template, v stands where the template's version stood and
\* no other version is left.
VersionReplaced(old, new, head, versions, v, template, literal) ==
  LET tags == {p + Len(head) : p \in {q \in Matches(old, head) :
                 Slice(old, q + Len(head), Len(v)) \in versions}}
  IN /\ Len(new) = Len(old)
     /\ \A i \in tags : Slice(new, i, Len(v)) = v
     /\ \A i \in 1..Len(old) :
          \/ \E j \in tags : i \in j..(j + Len(v) - 1)
          \/ SubSeq(new, i, i) = SubSeq(old, i, i)
     /\ \A t \in versions \ {v} : ~Includes(new, head \o t)
     /\ old = template =>
          /\ \A i \in Matches(template, literal) : Slice(new, i, Len(v)) = v
          /\ Count(new, v) = Count(template, literal)
          /\ \A t \in versions \ {v} : Count(new, t) = 0

\* C16: a change of prometheusVersion (grafanaVersion) in the monitoring
\* editor leaves the Prometheus (Grafana) buffer with the new value as the
\* tag of every image line and everything else as it was, whatever version
\* the tag was before; from the default buffer the new value stands at every
\* place the template's literal stood and the stale literal is gone.
C16_VersionChange ==
  [][ (activeStep = 6 /\ lastOp'.op = "edit") =>
        /\ local'.settings.prometheusVersion # local.settings.prometheusVersion =>
             /\ VersionReplaced(local.prometheusYaml, local'.prometheusYaml,
                                "prom/prometheus:",
                                {"v2.33.0", "v2.34.0", "v2.35.0", "v2.36.0"},
                                local'.settings.prometheusVersion,
                                defaultPrometheusYaml, "v2.34.0")
             /\ local'.grafanaYaml = local.grafanaYaml
        /\ local'.settings.grafanaVersion # local.settings.grafanaVersion =>
             /\ VersionReplaced(local.grafanaYaml, local'.grafanaYaml,
                                "grafana/grafana:",
                                {"8.5.0", "9.0.0", "9.1.0", "9.2.0"},
                                local'.settings.grafanaVersion,
                                defaultGrafanaYaml, "9.0.0")
             /\ local'.prometheusYaml = local.prometheusYaml ]_vars

\* The Prometheus version changed a second time, the first change having
\* been applied: the tag is the second value.
C16_Witness ==
  /\ activeStep = 6
  /\ lastOp.op = "edit"
  /\ "monitoringSetup" \in DOMAIN configs
  /\ configs["monitoringSetup"].settings.prometheusVersion = "v2.35.0"
  /\ local.settings.prometheusVersion = "v2.36.0"
  /\ Count(local.prometheusYaml, "v2.36.0") = 1
  /\ Count(local.prometheusYaml, "v2.35.0") = 0
  /\ Count(local.prometheusYaml, "v2.34.0") = 0

\* C17: after dockerUsername is changed to v in the Jenkinsfile editor the
\* buffer holds no DOCKER_USERNAME token, and v stands at each of the places
\* where the template holds the token.
C17_AllOccurrences ==
  [][ ( /\ activeStep = 2
        /\ lastOp'.op = "edit"
        /\ local'.vars.dockerUsername # local.vars.dockerUsername ) =>
        LET v == local'.vars.dockerUsername IN
          /\ Count(local'.jenkinsfile, "DOCKER_USERNAME") = 0
          /\ v # "" =>
               Count(local'.jenkinsfile, v) = Count(defaultJenkinsfile, "DOCKER_USERNAME") ]_vars

\* C18: a change of dockerCredentialsId in the Jenkinsfile editor, whose
\* pattern occurs nowhere in the template, leaves the Jenkinsfile buffer as
\* it was before the change.
C18_NoOpOnMismatch ==
  [][ ( /\ activeStep = 2
        /\ lastOp'.op = "edit"
        /\ local'.vars.dockerCredentialsId # local.vars.dockerCredentialsId ) =>
        local'.jenkinsfile = local.jenkinsfile ]_vars

\* C19: a free-text edit of a buffer leaves that buffer with the text typed
\* and the flag set; the settings, the other buffers of the editor, the
\* active step and the store are as they were.
C19_TextEditFrame ==
  [][ (lastOp'.op = "edit" /\ lastOp'.buffer # "") =>
        LET f == lastOp'.buffer IN
          /\ activeStep \in EditorSteps
          /\ activeStep' = activeStep
          /\ f \in Editor_allBuffers(activeStep)
          /\ local'[f] \in EditedTexts(local[f])
          /\ DOMAIN local' = DOMAIN local
          /\ \A g \in DOMAIN local \ {f, "hasUnsavedChanges"} : local'[g] = local[g]
          /\ local'.hasUnsavedChanges
          /\ configs' = configs ]_vars

\* A line typed into the Redis manifest of a Kubernetes editor whose
\* namespace was changed before: the other manifests hold the namespace and
\* no typed line.
C19_Witness ==
  /\ activeStep = 4
  /\ lastOp.op = "edit"
  /\ lastOp.buffer = "redisYaml"
  /\ local.vars.namespace = "acme"
  /\ Includes(local.redisYaml, UserEdit)
  /\ Includes(local.redisYaml, "namespace: acme\n")
  /\ local.deploymentYaml =
       Kubernetes_updatedDeploymentYaml(Kubernetes_mount(EmptyObject), "namespace", "acme")

\* C20: after Next in the repository step with an edited field, the store
\* holds an entry with the repository settings as they were edited.
C20_RepositoryApplied ==
  [][ ( /\ activeStep = 1
        /\ lastOp'.op = "next"
        /\ local.repoConfig # Repository_mount.repoConfig ) =>
        \E id \in DOMAIN configs' : configs'[id] = local.repoConfig ]_vars

\* A change of field B in an editor whose field A (another one) holds a value
\* other than its default leaves the buffer with B's new value, with A's
\* default literal wherever the template has it, and the vars with A's value.
OnlyLastRule(old, new, buffer2, defaults, template) ==
  new # old =>
    LET B == Changed(old, new) IN
      \A A \in DOMAIN defaults \ {B} :
        old[A] # defaults[A] =>
          /\ new[B] # "" => Includes(buffer2, new[B])
          /\ Count(buffer2, defaults[A]) = Count(template, defaults[A])
          /\ new[A] = old[A]
          /\ new[A] # defaults[A]

\* C21: in the Jenkinsfile and Dockerfile editors, after field A and then
\* another field B were changed, the buffer carries B's new value and A's
\* default literal while the vars hold A's new value.
C21_OnlyLastRule ==
  [][ lastOp'.op = "edit" =>
        /\ activeStep = 2 =>
             OnlyLastRule(local.vars, local'.vars, local'.jenkinsfile,
                          Jenkinsfile_defaultVars, defaultJenkinsfile)
        /\ activeStep = 3 =>
             OnlyLastRule(local.vars, local'.vars, local'.dockerfile,
                          Dockerfile_defaultVars, defaultDockerfile) ]_vars

\* The editor shown was mounted by the last step taken and nothing was typed
\* into it since.
FreshlyMounted ==
  /\ activeStep \in EditorSteps
  /\ lastOp.op \in {"sidebar", "next"}
  /\ lastOp.mounted

\* C22: an editor that was just mounted has the flag set before any edit, so
\* Next of the untouched editor applies once and the store then holds what the
\* mount produced (defaults, or the values seeded from the store); the flag is
\* clear only while the store's entry of the editor is what the editor holds,
\* that is, after an apply and before the next edit.
C22_DirtyAtMount ==
  /\ [](FreshlyMounted => local.hasUnsavedChanges)
  /\ [][ (FreshlyMounted /\ lastOp'.op = "next") =>
           /\ lastOp'.calls = <<"applyConfig", "goToNextStep">>
           /\ local = Mount(activeStep, configs, 1, 1)
           /\ StepId(activeStep) \in DOMAIN configs'
           /\ configs'[StepId(activeStep)] =
                Snapshot(Mount(activeStep, configs, 1, 1)) ]_vars
  /\ []( (activeStep \in EditorSteps /\ ~local.hasUnsavedChanges) =>
           /\ activeStep \in AppliedSteps
           /\ configs[StepId(activeStep)] = Snapshot(local) )

\* Next pressed twice from the Dockerfile step with nothing typed: the store
\* holds the defaults of both editors passed.
C22_Witness ==
  /\ lastOp.op = "next"
  /\ lastOp.calls = <<"applyConfig", "goToNextStep">>
  /\ activeStep = 5
  /\ focus = 0
  /\ nOps = 2
  /\ FreshlyMounted
  /\ configs = [dockerfile |-> Snapshot(Dockerfile_mount(EmptyObject)),
                kubernetes |-> Snapshot(Kubernetes_mount(EmptyObject))]

\* C23: an apply made from one step leaves the entry of every other step as it
\* was: what an earlier apply stored for another step is neither dropped nor
\* altered, however many applies from different steps follow.
C23_OtherEntriesKept ==
  [][ "applyConfig" \in Range(lastOp'.calls) =>
        \A t \in DOMAIN configs \ {StepId(activeStep)} :
          /\ t \in DOMAIN configs'
          /\ configs'[t] = configs[t] ]_vars

\* Three applies from three steps: the store holds the three entries.
C23_Witness ==
  /\ "applyConfig" \in Range(lastOp.calls)
  /\ nOps = 3
  /\ Cardinality(DOMAIN configs) = 3
  /\ \A step \in AppliedSteps :
       configs[StepId(step)] = Snapshot(Mount(step, EmptyObject, 1, 1))

\* The four manifests derived from the default templates with the rules of
\* all the values of v, whichever field is taken as the one being changed.
DerivedFromVars(l, v) ==
  \A n \in DOMAIN v :
    /\ l.deploymentYaml = Kubernetes_updatedDeploymentYaml([vars |-> v], n, v[n])
    /\ l.serviceYaml = Kubernetes_updatedServiceYaml([vars |-> v], n, v[n])
    /\ l.redisYaml = Kubernetes_updatedRedisYaml([vars |-> v], n, v[n])
    /\ l.configMapYaml = Kubernetes_updatedConfigMapYaml([vars |-> v], n, v[n])

\* C24: in the Kubernetes editor, after a change of a var the deployment,
\* service, redis and configmap buffers are their default templates with the
\* rules of all current var values applied: they depend on the final values
\* only, and a free-text edit made before is gone.
C24_AllCurrentVars ==
  [][ (activeStep = 4 /\ lastOp'.op = "edit" /\ local'.vars # local.vars) =>
        /\ DerivedFromVars(local', local'.vars)
        /\ \A f \in {"deploymentYaml", "serviceYaml", "redisYaml", "configMapYaml"} :
             ~Includes(local'[f], UserEdit) ]_vars

\* Three var changes: namespace, app name and replicas all differ from their
\* defaults and the deployment carries the three values.
C24_Witness ==
  /\ activeStep = 4
  /\ lastOp.op = "edit"
  /\ nOps = 3
  /\ local.vars.namespace = "acme"
  /\ local.vars.appName = "acme"
  /\ local.vars.replicas = "3"
  /\ Count(local.deploymentYaml, "acme") > 2
  /\ Count(local.deploymentYaml, "replicas: 3\n") = 1
  /\ Count(local.deploymentYaml, "go-microservice") = 0
  /\ DerivedFromVars(local, local.vars)

\* The text has a storageClassName line that reads class c.
CarriesStorageClass(text, c) == Includes(text, "\n  storageClassName: " \o c \o "\n")

\* The first line of the volume block of provider p.
VolumeBlockHead(p) ==
  SubSeq(cloudProviderConfigs(p), 1, Min(Matches(cloudProviderConfigs(p), "\n")) - 1)

\* C25: in the Kubernetes editor, after the cloud provider was changed to p
\* the state has cloudProvider p and the first storage class of p, the
\* persistent-volume buffer has the volume block of p and that class, and the
\* claim buffer has that class; after the storage class was changed to c both
\* buffers carry c.
C25_ProviderAndClass ==
  [][ (activeStep = 4 /\ lastOp'.op = "edit") =>
        /\ local'.cloudProvider # local.cloudProvider =>
             /\ local'.storageClass = storageClasses(local'.cloudProvider)[1]
             /\ Includes(local'.persistentVolumeYaml,
                         VolumeBlockHead(local'.cloudProvider))
             /\ CarriesStorageClass(local'.persistentVolumeYaml, local'.storageClass)
             /\ CarriesStorageClass(local'.persistentVolumeClaimYaml, local'.storageClass)
        /\ ( /\ local'.cloudProvider = local.cloudProvider
             /\ local'.storageClass # local.storageClass ) =>
             /\ CarriesStorageClass(local'.persistentVolumeYaml, local'.storageClass)
             /\ CarriesStorageClass(local'.persistentVolumeClaimYaml, local'.storageClass) ]_vars

\* The text has a storage line and every storage line reads size followed by Gi.
CarriesSize(text, size) ==
  /\ Includes(text, "storage: ")
  /\ \A i \in Matches(text, "storage: ") :
       Slice(text, i + Len("storage: "), Len(size) + 3) = size \o "Gi\n"

\* C26: in the Kubernetes editor, a disk-size edit made while the
\* persistent-volume and claim buffers carry the size of the field (no
\* free-text edit has changed it) leaves both buffers with the new diskSize
\* followed by Gi, whatever the value, an emptied field and the value typed
\* after it included.
C26_SizeFollowsField ==
  [][ ( /\ activeStep = 4
        /\ lastOp'.op = "edit"
        /\ local'.diskSize # local.diskSize
        /\ CarriesSize(local.persistentVolumeYaml, local.diskSize)
        /\ CarriesSize(local.persistentVolumeClaimYaml, local.diskSize) ) =>
        /\ CarriesSize(local'.persistentVolumeYaml, local'.diskSize)
        /\ CarriesSize(local'.persistentVolumeClaimYaml, local'.diskSize) ]_vars

\* The text has label somewhere, and wherever it has it the rest of the
\* line is value.
CarriesValue(text, label, value) ==
  /\ Includes(text, label)
  /\ \A i \in Matches(text, label) :
       Slice(text, i + Len(label), Len(value) + 1) = value \o "\n"

MonitoringCarries(l) ==
  /\ CarriesValue(l.prometheusYaml, "\n  namespace: ", l.settings.namespace)
  /\ CarriesValue(l.grafanaYaml, "\n  namespace: ", l.settings.namespace)
  /\ CarriesValue(l.grafanaYaml,
                  "- name: GF_SECURITY_ADMIN_PASSWORD\n          value: ",
                  l.settings.grafanaAdminPassword)

\* C27: in the monitoring editor, an edit of the namespace or of the Grafana
\* admin password made while the buffers carry the settings (no free-text
\* edit has changed them) leaves every namespace line of the Prometheus and
\* Grafana buffers equal to settings.namespace and the admin password value
\* of the Grafana buffer equal to settings.grafanaAdminPassword.
C27_BuffersFollowSettings ==
  [][ ( /\ activeStep = 6
        /\ lastOp'.op = "edit"
        /\ \/ local'.settings.namespace # local.settings.namespace
           \/ local'.settings.grafanaAdminPassword # local.settings.grafanaAdminPassword
        /\ MonitoringCarries(local) ) => MonitoringCarries(local') ]_vars

\* C28: an Export All run downloads the contents computed in the render it
\* was invoked in: the run starts with the files shown then, a change of the
\* store leaves every pending run as it is, and each download of a timer is
\* the file of its own run, whichever other run is pending.
C28_OwnSnapshot ==
  [][ /\ lastOp'.op = "export" =>
           /\ Len(timers') = Len(timers) + 1
           /\ timers'[Len(timers')].files = local.files
           /\ \A k \in 1..Len(timers) : timers'[k] = timers[k]
      /\ configs' # configs => timers' = timers
      /\ lastOp'.op = "download" =>
           \E k \in 1..Len(timers) :
             /\ Len(timers') = Len(timers)
             /\ timers'[k].pos = timers[k].pos + 1
             /\ \A j \in 1..Len(timers) :
                  /\ timers'[j].files = timers[j].files
                  /\ j # k => timers'[j].pos = timers[j].pos
             /\ lastOp'.content = timers[k].files[timers[k].pos].content ]_vars

\* Two runs are pending, one invoked before the Jenkinsfile was applied and
\* one after; the earlier run has just downloaded its Jenkinsfile, which is
\* not what the store gives now nor what the later run holds.
C28_Witness ==
  /\ lastOp.op = "download"
  /\ lastOp.name = "Jenkinsfile"
  /\ Len(timers) = 2
  /\ timers[1].pos = 2
  /\ "jenkinsfile" \in DOMAIN configs
  /\ lastOp.content = timers[1].files[1].content
  /\ timers[2].files[1].content # lastOp.content
  /\ \A bnJ \in BuildNumbers, bnD \in BuildNumbers :
       /\ Export_files(configs, bnJ, bnD)[1].content # lastOp.content
       /\ Export_files(configs, bnJ, bnD)[1].content = timers[2].files[1].content

\* C29: the storage class of the Kubernetes editor is one of the classes
\* listed for its cloud provider, in every state of the editor, a state
\* seeded from the store at mount included, and in the entry the store holds.
C29_ClassOfProvider ==
  /\ activeStep = 4 =>
       local.storageClass \in Range(storageClasses(local.cloudProvider))
  /\ "kubernetes" \in DOMAIN configs =>
       configs["kubernetes"].storageClass
         \in Range(storageClasses(configs["kubernetes"].cloudProvider))

\* The editor mounted anew from an entry applied after a provider change.
C29_Witness ==
  /\ activeStep = 4
  /\ FreshlyMounted
  /\ "kubernetes" \in DOMAIN configs
  /\ configs["kubernetes"].cloudProvider = "onprem"
  /\ local.cloudProvider = "onprem"
  /\ local.storageClass = "local-storage"
  /\ local.storageClass \notin Range(storageClasses("aws"))

\* The editor after the persistStorage switch was turned on and off again.
OnThenOff(l) ==
  Monitoring_handleSettingsChange(
    Monitoring_handleSettingsChange(l, "persistStorage", TRUE),
    "persistStorage", FALSE)

\* C30: in the monitoring editor with persistStorage off, turning it on and
\* then off again gives the Prometheus and Grafana buffers the text they had
\* before, and a second on/off cycle leaves them as the first did.
C30_OnOffRoundTrip ==
  (activeStep = 6 /\ ~local.settings.persistStorage) =>
    /\ OnThenOff(local).prometheusYaml = local.prometheusYaml
    /\ OnThenOff(local).grafanaYaml = local.grafanaYaml
    /\ OnThenOff(OnThenOff(local)).prometheusYaml = OnThenOff(local).prometheusYaml
    /\ OnThenOff(OnThenOff(local)).grafanaYaml = OnThenOff(local).grafanaYaml

====
